---- MODULE Spec2Model ----
(***************************************************************************)
(* Class management system: the grade, class and calendar-event stores and *)
(* the route handlers that write them.                                     *)
(*                                                                         *)
(* A handler is an async function: every `await` of a persistence call is  *)
(* a point where other requests run.  A request therefore occupies a slot  *)
(* and moves through one action per persistence call; what the handler     *)
(* does synchronously after a call resolves belongs to the same action.    *)
(***************************************************************************)
EXTENDS Integers, Sequences, FiniteSets, TLC

VARIABLES
    classes,    \* the Class collection: a sequence, a class's _id is its index
    grades,     \* the Grade collection: a set of documents
    nextGradeId,\* the number of Grade _ids handed out so far
    greqs,      \* grade requests, one per slot
    creqs,      \* class requests, one per slot
    events,     \* the CalendarEvent collection: a sequence, _id is the index
    ereqs,      \* calendar requests, one per slot
    files,      \* the files of data/calendars: path to content
    students,   \* the Student collection: _id to document
    sreqs,      \* student requests, one per slot
    calc        \* a computation on data already fetched: its inputs and result

vars == <<classes, grades, nextGradeId, greqs, creqs, events, ereqs, calc, files, students, sreqs>>

(***************************************************************************)
(* Bounds of the model.                                                    *)
(***************************************************************************)
MaxReq == 2         \* grade request slots, class request slots
MaxEventReq == 3    \* calendar request slots
MaxBulk == 2        \* documents in one bulk request
MaxClasses == 4     \* class documents ever stored
MaxEvents == 2      \* event documents ever stored
MaxIds == 2         \* student ids in one addAttendees request
MaxImport == 2      \* components in one imported iCalendar text
DayLen == 2         \* instants per calendar day (an instant stands for 1 ms)
NumDays == 2        \* calendar days of the time line

Slots == 1..MaxReq
ESlots == 1..MaxEventReq

Professors == {"p1", "p2"}

\* the directory data/calendars before any file was written
NoFiles == [path \in {} |-> <<>>]

(***************************************************************************)
(* ObjectIds and the strings a request carries for them.  An ObjectId is   *)
(* written by its canonical (lower-case) hex string; a request may carry   *)
(* the same id in upper case, or a string that is no ObjectId at all.      *)
(***************************************************************************)
StudentOids == {"s1", "s2"}
IdStrings == {"s1", "S1", "s2", "zz"}
NoOid == "invalid"

\* isMongoId(): 24 hex digits, either case
IsMongoId(str) == str \in {"s1", "S1", "s2", "S2", "s3", "S3"}

\* casting a string to an ObjectId (hex digits are read case-insensitively)
CastObjectId(str) ==
    CASE str \in {"s1", "S1"} -> "s1"
      [] str \in {"s2", "S2"} -> "s2"
      [] str \in {"s3", "S3"} -> "s3"
      [] OTHER -> NoOid

\* ObjectId.prototype.toString(): the lower-case hex string
OidToString(oid) == oid

AssignmentNames == {"hw1", "hw2"}

\* the first free slot: slots are taken in order
FreeSlot(reqs, r) ==
    /\ reqs[r].pc = "idle"
    /\ IF r = 1 THEN TRUE ELSE reqs[r - 1].pc # "idle"

(***************************************************************************)
(* The Grade collection.                                                   *)
(***************************************************************************)
GradeKey(g) == <<g.student, g.class, g.name>>

GradeKeyTaken_NoIndex(store, key, exceptId) == FALSE

\* the unique index {student, class, assignment.name}: a write is refused
\* (E11000) when another document holds the key
GradeKeyTaken(store, key, exceptId) ==
    \E g \in store : g.id # exceptId /\ GradeKey(g) = key

GIdle ==
    [pc |-> "idle", op |-> "none", prof |-> "none", student |-> "none",
     class |-> 0, name |-> "none", status |-> 0, message |-> "none",
     error |-> "none"]

\* a request that was answered: what is kept of it is the operation, the
\* response and the error the handler caught
GDone(req, status, message, error) ==
    [GIdle EXCEPT !.pc = "done", !.op = req.op, !.status = status,
                  !.message = message, !.error = error]

\* enrolledStudents.some(e => e.student.toString() === student && e.status === 'enrolled')
IsEnrolled(classDoc, studentStr) ==
    \E i \in 1..Len(classDoc.enrolledStudents) :
        /\ OidToString(classDoc.enrolledStudents[i].student) = studentStr
        /\ classDoc.enrolledStudents[i].status = "enrolled"

\* Class.findOne({_id, professor})
FindClass(id, prof) ==
    IF id \in 1..Len(classes) /\ classes[id].professor = prof
    THEN id ELSE 0

\* POST /api/grades, up to the enrollment check: the validation middleware,
\* Class.findOne and the check on the document it returned
CreateGradeBegin(r, prof, student, class, name) ==
    /\ FreeSlot(greqs, r)
    /\ LET req == [GIdle EXCEPT !.op = "create", !.prof = prof,
                                !.student = student, !.class = class,
                                !.name = name]
       IN greqs' = [greqs EXCEPT ![r] =
            IF ~IsMongoId(student)
            THEN GDone(req, 400, "Validation failed", "none")
            ELSE IF FindClass(class, prof) = 0
            THEN GDone(req, 404, "Class not found", "none")
            ELSE IF ~IsEnrolled(classes[class], student)
            THEN GDone(req, 400, "Student is not enrolled in this class", "none")
            ELSE [req EXCEPT !.pc = "findExisting"]]
    /\ UNCHANGED <<classes, grades, nextGradeId, creqs, events, ereqs, calc, files, students, sreqs>>

\* POST /api/grades: Grade.findOne({student, class, 'assignment.name'})
CreateGradeFindExisting(r) ==
    /\ greqs[r].op = "create" /\ greqs[r].pc = "findExisting"
    /\ LET req == greqs[r]
           key == <<CastObjectId(req.student), req.class, req.name>>
       IN greqs' = [greqs EXCEPT ![r] =
            IF \E g \in grades : GradeKey(g) = key
            THEN GDone(req, 400, "Grade already exists for this assignment", "none")
            ELSE [req EXCEPT !.pc = "save"]]
    /\ UNCHANGED <<classes, grades, nextGradeId, creqs, events, ereqs, calc, files, students, sreqs>>

\* POST /api/grades: grade.save() and the response
CreateGradeSave(r) ==
    /\ greqs[r].op = "create" /\ greqs[r].pc = "save"
    /\ LET req == greqs[r]
           doc == [id |-> nextGradeId + 1, student |-> CastObjectId(req.student),
                   class |-> req.class, name |-> req.name,
                   professor |-> req.prof]
       IN IF GradeKeyTaken(grades, GradeKey(doc), doc.id)
          THEN /\ greqs' = [greqs EXCEPT ![r] =
                     GDone(req, 500, "Failed to create grade", "E11000")]
               /\ UNCHANGED <<grades, nextGradeId, files, students, sreqs>>
          ELSE /\ grades' = grades \cup {doc}
               /\ nextGradeId' = nextGradeId + 1
               /\ greqs' = [greqs EXCEPT ![r] =
                     GDone(req, 201, "Grade created successfully", "none")]
    /\ UNCHANGED <<classes, creqs, events, ereqs, calc, files, students, sreqs>>

\* the documents a bulk request may carry (already of the right types)
BulkDocs == [student : StudentOids, class : {1}, name : AssignmentNames]

BulkBodies == UNION {[1..n -> BulkDocs] : n \in 0..MaxBulk}

\* Grade.insertMany(docs, {ordered: false}): every document the unique index
\* accepts is inserted, the others are counted as write errors
RECURSIVE InsertMany(_, _, _, _)
InsertMany(store, nextId, docs, prof) ==
    IF docs = <<>>
    THEN [store |-> store, nextId |-> nextId, writeErrors |-> 0]
    ELSE LET doc == [id |-> nextId + 1, student |-> Head(docs).student,
                     class |-> Head(docs).class, name |-> Head(docs).name,
                     professor |-> prof]
         IN IF GradeKeyTaken(store, GradeKey(doc), doc.id)
            THEN LET rest == InsertMany(store, nextId, Tail(docs), prof)
                 IN [rest EXCEPT !.writeErrors = @ + 1]
            ELSE InsertMany(store \cup {doc}, nextId + 1, Tail(docs), prof)

\* POST /api/grades/bulk
BulkCreateGrades(r, prof, body) ==
    /\ FreeSlot(greqs, r)
    /\ LET req == [GIdle EXCEPT !.op = "bulk", !.prof = prof]
           res == InsertMany(grades, nextGradeId, body, prof)
       IN IF Len(body) = 0
          THEN /\ greqs' = [greqs EXCEPT ![r] =
                     GDone(req, 400, "Grades array is required", "none")]
               /\ UNCHANGED <<grades, nextGradeId, files, students, sreqs>>
          ELSE /\ grades' = res.store
               /\ nextGradeId' = res.nextId
               /\ greqs' = [greqs EXCEPT ![r] =
                     IF res.writeErrors > 0
                     THEN GDone(req, 500, "Failed to create grades in bulk", "E11000")
                     ELSE GDone(req, 201, "grades created successfully", "none")]
    /\ UNCHANGED <<classes, creqs, events, ereqs, calc, files, students, sreqs>>

\* PUT /api/grades/:id: Grade.findOneAndUpdate({_id, professor}, req.body),
\* the body setting student, class and assignment.name
UpdateGrade(r, prof, id, body) ==
    /\ FreeSlot(greqs, r)
    /\ LET req == [GIdle EXCEPT !.op = "update", !.prof = prof,
                                !.student = body.student, !.class = body.class,
                                !.name = body.name]
           found == {g \in grades : g.id = id /\ g.professor = prof}
       IN IF found = {}
          THEN /\ greqs' = [greqs EXCEPT ![r] =
                     GDone(req, 404, "Grade not found", "none")]
               /\ UNCHANGED grades
          ELSE LET old == CHOOSE g \in found : TRUE
                   new == [old EXCEPT !.student = body.student,
                                      !.class = body.class, !.name = body.name]
               IN IF GradeKeyTaken(grades, GradeKey(new), id)
                  THEN /\ greqs' = [greqs EXCEPT ![r] =
                             GDone(req, 500, "Failed to update grade", "E11000")]
                       /\ UNCHANGED grades
                  ELSE /\ grades' = (grades \ {old}) \cup {new}
                       /\ greqs' = [greqs EXCEPT ![r] =
                             GDone(req, 200, "Grade updated successfully", "none")]
    /\ UNCHANGED <<classes, nextGradeId, creqs, events, ereqs, calc, files, students, sreqs>>

\* DELETE /api/grades/:id: Grade.findOneAndDelete({_id, professor})
DeleteGrade(r, prof, id) ==
    /\ FreeSlot(greqs, r)
    /\ LET req == [GIdle EXCEPT !.op = "delete", !.prof = prof]
           found == {g \in grades : g.id = id /\ g.professor = prof}
       IN /\ grades' = grades \ found
          /\ greqs' = [greqs EXCEPT ![r] =
                IF found = {}
                THEN GDone(req, 404, "Grade not found", "none")
                ELSE GDone(req, 200, "Grade deleted successfully", "none")]
    /\ UNCHANGED <<classes, nextGradeId, creqs, events, ereqs, calc, files, students, sreqs>>

(***************************************************************************)
(* The Class collection.                                                   *)
(***************************************************************************)
CourseCodes == {"cs1", "CS1", "cs2"}

\* String.prototype.toUpperCase(), also the schema's `uppercase: true` setter
ToUpperCase(str) ==
    CASE str \in {"cs1", "CS1"} -> "CS1"
      [] str \in {"cs2", "CS2"} -> "CS2"
      [] OTHER -> str

\* "HH:MM" strings, written <<HH, MM>>; each matches the schema's pattern
Schedules ==
    { [startTime |-> <<9, 0>>, endTime |-> <<10, 0>>],
      [startTime |-> <<9, 0>>, endTime |-> <<9, 30>>],
      [startTime |-> <<9, 0>>, endTime |-> <<9, 0>>],
      [startTime |-> <<9, 30>>, endTime |-> <<9, 0>>],
      [startTime |-> <<9, 30>>, endTime |-> <<10, 0>>] }

\* time.split(':').map(Number), then hours * 60 + minutes
TimeMinutes(t) == t[1] * 60 + t[2]

\* classSchema.pre('save'): the save goes on unless endMinutes <= startMinutes
ScheduleValid(startTime, endTime) ==
    ~(TimeMinutes(endTime) <= TimeMinutes(startTime))

ClassKey(c) == <<c.professor, c.courseCode, c.semester, c.year>>

\* classSchema maxEnrollment: default 30
DefaultMaxEnrollment == 30

CReqIdle ==
    [pc |-> "idle", op |-> "none", prof |-> "none", courseCode |-> "none",
     startTime |-> <<0, 0>>, endTime |-> <<0, 0>>, class |-> 0,
     studentId |-> "none", newStatus |-> "none", isEnrolled |-> FALSE,
     scheduleOk |-> TRUE, idx |-> 0, modified |-> FALSE, version |-> 0,
     status |-> 0, message |-> "none"]

CDone(req, status, message) ==
    [CReqIdle EXCEPT !.pc = "done", !.op = req.op, !.status = status,
                     !.message = message]

\* POST /api/classes: Class.findOne({professor, courseCode, semester, year})
CreateClassBegin(r, prof, courseCode, schedule) ==
    /\ FreeSlot(creqs, r)
    /\ LET req == [CReqIdle EXCEPT !.op = "create", !.prof = prof,
                                   !.courseCode = courseCode,
                                   !.startTime = schedule.startTime,
                                   !.endTime = schedule.endTime]
           key == <<prof, ToUpperCase(courseCode), "Fall", 2024>>
       IN creqs' = [creqs EXCEPT ![r] =
            IF \E i \in 1..Len(classes) : ClassKey(classes[i]) = key
            THEN CDone(req, 400, "A class with this course code already exists for this semester and year")
            ELSE [req EXCEPT !.pc = "save"]]
    /\ UNCHANGED <<classes, grades, nextGradeId, greqs, events, ereqs, calc, files, students, sreqs>>

\* POST /api/classes: newClass.save() (the pre-save hook, then the insert)
\* and the response
CreateClassSave(r) ==
    /\ creqs[r].op = "create" /\ creqs[r].pc = "save"
    /\ Len(classes) < MaxClasses
    /\ LET req == creqs[r]
           doc == [professor |-> req.prof,
                   courseCode |-> ToUpperCase(req.courseCode),
                   semester |-> "Fall", year |-> 2024,
                   startTime |-> req.startTime, endTime |-> req.endTime,
                   enrolledStudents |-> <<>>,
                   maxEnrollment |-> DefaultMaxEnrollment, version |-> 0]
       IN IF ~ScheduleValid(doc.startTime, doc.endTime)
          THEN /\ creqs' = [creqs EXCEPT ![r] =
                     CDone(req, 500, "Failed to create class")]
               /\ UNCHANGED classes
          ELSE /\ classes' = Append(classes, doc)
               /\ creqs' = [creqs EXCEPT ![r] =
                     CDone(req, 201, "Class created successfully")]
    /\ UNCHANGED <<grades, nextGradeId, greqs, events, ereqs, calc, files, students, sreqs>>

\* PUT /api/classes/:id: Class.findOneAndUpdate({_id, professor}, req.body,
\* {runValidators: true}), the body setting courseCode and the schedule times:
\* the update validators (pattern, required) run, the pre-save hook does not
UpdateClass(r, prof, id, courseCode, schedule) ==
    /\ FreeSlot(creqs, r)
    /\ LET req == [CReqIdle EXCEPT !.op = "update", !.prof = prof]
       IN IF FindClass(id, prof) = 0
          THEN /\ creqs' = [creqs EXCEPT ![r] = CDone(req, 404, "Class not found")]
               /\ UNCHANGED classes
          ELSE /\ classes' = [classes EXCEPT
                     ![id].courseCode = ToUpperCase(courseCode),
                     ![id].startTime = schedule.startTime,
                     ![id].endTime = schedule.endTime]
               /\ creqs' = [creqs EXCEPT ![r] =
                     CDone(req, 200, "Class updated successfully")]
    /\ UNCHANGED <<grades, nextGradeId, greqs, events, ereqs, calc, files, students, sreqs>>

(***************************************************************************)
(* The CalendarEvent collection.  Time is a line of instants (an instant   *)
(* stands for a millisecond) cut into calendar days of DayLen instants.    *)
(***************************************************************************)
Instants == 0..(NumDays * DayLen - 1)
Absent == -1        \* a date a request or an imported component does not give

\* date.setHours(0, 0, 0, 0)
StartOfDay(t) == (t \div DayLen) * DayLen

\* date.setHours(23, 59, 59, 999)
EndOfDay(t) == (t \div DayLen) * DayLen + (DayLen - 1)

AttendeeStatuses == {"invited", "accepted", "declined", "tentative"}

\* calendarEventSchema.pre('save'): the save goes on unless
\* endDateTime <= startDateTime
RangeValid(startDateTime, endDateTime) == ~(endDateTime <= startDateTime)

EReqIdle ==
    [pc |-> "idle", op |-> "none", prof |-> "none", event |-> 0, class |-> 0,
     startDateTime |-> Absent, endDateTime |-> Absent, isAllDay |-> FALSE,
     attendees |-> <<>>, isArray |-> TRUE, studentIds |-> <<>>,
     studentId |-> "none", newStatus |-> "none", version |-> 0,
     rangeOk |-> TRUE, pushed |-> <<>>, idx |-> 0, modified |-> FALSE,
     items |-> <<>>, status |-> 0, message |-> "none", error |-> "none"]

\* a request that was answered: what is kept of it is the operation, the
\* response and the error the handler caught
EDone(req, status, message, error) ==
    [EReqIdle EXCEPT !.pc = "done", !.op = req.op, !.status = status,
                     !.message = message, !.error = error]

\* CalendarEvent.findOne({_id, professor})
FindEvent(id, prof) ==
    IF id \in 1..Len(events) /\ events[id].professor = prof
    THEN id ELSE 0

\* new CalendarEvent(data).save(): the required-field validation, the
\* pre-save hook (range check, then the all-day normalisation) and the
\* insert.  Gives the error thrown, or "none" and the document stored.
SaveNewEvent(data) ==
    IF data.startDateTime = Absent \/ data.endDateTime = Absent
    THEN [error |-> "ValidationError", doc |-> data]
    ELSE IF ~RangeValid(data.startDateTime, data.endDateTime)
    THEN [error |-> "End date and time must be after start date and time",
          doc |-> data]
    ELSE [error |-> "none",
          doc |-> IF data.isAllDay
                  THEN [data EXCEPT
                          !.startDateTime = StartOfDay(data.startDateTime),
                          !.endDateTime = EndOfDay(data.endDateTime)]
                  ELSE data]

NewAttendees(oids) ==
    [i \in 1..Len(oids) |-> [student |-> oids[i], status |-> "invited"]]

EventData(req) ==
    [professor |-> req.prof, class |-> req.class,
     startDateTime |-> req.startDateTime, endDateTime |-> req.endDateTime,
     isAllDay |-> req.isAllDay, attendees |-> NewAttendees(req.attendees),
     version |-> 0]

\* POST /api/calendar/events: event.save() and the response
CreateEventRespond(r, req) ==
    LET res == SaveNewEvent(EventData(req))
    IN IF res.error # "none"
       THEN /\ ereqs' = [ereqs EXCEPT ![r] =
                  EDone(req, 500, "Failed to create calendar event", res.error)]
            /\ UNCHANGED events
       ELSE /\ events' = Append(events, res.doc)
            /\ ereqs' = [ereqs EXCEPT ![r] =
                  EDone(req, 201, "Calendar event created successfully", "none")]

\* POST /api/calendar/events of a body that names a class: Class.findOne
CreateEventFindClass(r, prof, body) ==
    /\ FreeSlot(ereqs, r)
    /\ body.class # 0
    /\ LET req == [EReqIdle EXCEPT !.op = "create", !.prof = prof,
                                   !.class = body.class,
                                   !.startDateTime = body.startDateTime,
                                   !.endDateTime = body.endDateTime,
                                   !.isAllDay = body.isAllDay,
                                   !.attendees = body.attendees]
       IN ereqs' = [ereqs EXCEPT ![r] =
            IF FindClass(body.class, prof) = 0
            THEN EDone(req, 404, "Class not found", "none")
            ELSE [req EXCEPT !.pc = "save"]]
    /\ UNCHANGED <<classes, grades, nextGradeId, greqs, creqs, events, calc, files, students, sreqs>>

\* POST /api/calendar/events: the save of a request whose class was found
CreateEventSave(r) ==
    /\ ereqs[r].op = "create" /\ ereqs[r].pc = "save"
    /\ Len(events) < MaxEvents
    /\ CreateEventRespond(r, ereqs[r])
    /\ UNCHANGED <<classes, grades, nextGradeId, greqs, creqs, calc, files, students, sreqs>>

\* POST /api/calendar/events of a body that names no class: the save is the
\* handler's first persistence call
CreateEvent(r, prof, body) ==
    /\ FreeSlot(ereqs, r)
    /\ body.class = 0
    /\ Len(events) < MaxEvents
    /\ CreateEventRespond(r, [EReqIdle EXCEPT !.op = "create", !.prof = prof,
                                   !.startDateTime = body.startDateTime,
                                   !.endDateTime = body.endDateTime,
                                   !.isAllDay = body.isAllDay,
                                   !.attendees = body.attendees])
    /\ UNCHANGED <<classes, grades, nextGradeId, greqs, creqs, calc, files, students, sreqs>>

Keep == "keep"

\* PUT /api/calendar/events/:id: CalendarEvent.findOneAndUpdate({_id,
\* professor}, req.body, {runValidators: true}), the body setting any of
\* startDateTime, endDateTime and isAllDay: the update validators run, the
\* pre-save hook does not
UpdateEvent(r, prof, id, body) ==
    /\ FreeSlot(ereqs, r)
    /\ LET req == [EReqIdle EXCEPT !.op = "update", !.prof = prof]
       IN IF FindEvent(id, prof) = 0
          THEN /\ ereqs' = [ereqs EXCEPT ![r] =
                     EDone(req, 404, "Calendar event not found", "none")]
               /\ UNCHANGED events
          ELSE /\ events' = [events EXCEPT
                     ![id].startDateTime =
                         IF body.startDateTime = Absent THEN @
                         ELSE body.startDateTime,
                     ![id].endDateTime =
                         IF body.endDateTime = Absent THEN @
                         ELSE body.endDateTime,
                     ![id].isAllDay =
                         IF body.isAllDay = Keep THEN @
                         ELSE body.isAllDay = "true"]
               /\ ereqs' = [ereqs EXCEPT ![r] =
                     EDone(req, 200, "Calendar event updated successfully", "none")]
    /\ UNCHANGED <<classes, grades, nextGradeId, greqs, creqs, calc, files, students, sreqs>>

(***************************************************************************)
(* calendarSync.mapEventType.  A label is a sequence of characters; an     *)
(* event type of the system is written as a string.                        *)
(***************************************************************************)
\* eventType enum of the CalendarEvent schema
EventTypes ==
    {"lecture", "exam", "quiz", "assignment_due", "project_due",
     "office_hours", "meeting", "conference", "holiday", "break", "deadline",
     "presentation", "lab", "seminar", "workshop", "other"}

\* the characters of the name of an event type
EventTypeChars ==
    [ lecture |-> <<"l", "e", "c", "t", "u", "r", "e">>,
      exam |-> <<"e", "x", "a", "m">>,
      quiz |-> <<"q", "u", "i", "z">>,
      assignment_due |-> <<"a", "s", "s", "i", "g", "n", "m", "e", "n", "t", "_", "d", "u", "e">>,
      project_due |-> <<"p", "r", "o", "j", "e", "c", "t", "_", "d", "u", "e">>,
      office_hours |-> <<"o", "f", "f", "i", "c", "e", "_", "h", "o", "u", "r", "s">>,
      meeting |-> <<"m", "e", "e", "t", "i", "n", "g">>,
      conference |-> <<"c", "o", "n", "f", "e", "r", "e", "n", "c", "e">>,
      holiday |-> <<"h", "o", "l", "i", "d", "a", "y">>,
      break |-> <<"b", "r", "e", "a", "k">>,
      deadline |-> <<"d", "e", "a", "d", "l", "i", "n", "e">>,
      presentation |-> <<"p", "r", "e", "s", "e", "n", "t", "a", "t", "i", "o", "n">>,
      lab |-> <<"l", "a", "b">>,
      seminar |-> <<"s", "e", "m", "i", "n", "a", "r">>,
      workshop |-> <<"w", "o", "r", "k", "s", "h", "o", "p">>,
      other |-> <<"o", "t", "h", "e", "r">> ]

\* typeMap, in the order Object.entries lists it
TypeMap ==
    << [key |-> <<"l", "e", "c", "t", "u", "r", "e">>,
        value |-> "lecture"],
       [key |-> <<"c", "l", "a", "s", "s">>,
        value |-> "lecture"],
       [key |-> <<"e", "x", "a", "m">>,
        value |-> "exam"],
       [key |-> <<"t", "e", "s", "t">>,
        value |-> "exam"],
       [key |-> <<"q", "u", "i", "z">>,
        value |-> "quiz"],
       [key |-> <<"a", "s", "s", "i", "g", "n", "m", "e", "n", "t">>,
        value |-> "assignment_due"],
       [key |-> <<"p", "r", "o", "j", "e", "c", "t">>,
        value |-> "project_due"],
       [key |-> <<"o", "f", "f", "i", "c", "e", " ", "h", "o", "u", "r", "s">>,
        value |-> "office_hours"],
       [key |-> <<"m", "e", "e", "t", "i", "n", "g">>,
        value |-> "meeting"],
       [key |-> <<"c", "o", "n", "f", "e", "r", "e", "n", "c", "e">>,
        value |-> "conference"],
       [key |-> <<"h", "o", "l", "i", "d", "a", "y">>,
        value |-> "holiday"],
       [key |-> <<"b", "r", "e", "a", "k">>,
        value |-> "break"],
       [key |-> <<"d", "e", "a", "d", "l", "i", "n", "e">>,
        value |-> "deadline"],
       [key |-> <<"p", "r", "e", "s", "e", "n", "t", "a", "t", "i", "o", "n">>,
        value |-> "presentation"],
       [key |-> <<"l", "a", "b">>,
        value |-> "lab"],
       [key |-> <<"s", "e", "m", "i", "n", "a", "r">>,
        value |-> "seminar"],
       [key |-> <<"w", "o", "r", "k", "s", "h", "o", "p">>,
        value |-> "workshop"] >>

UpperLetters ==
    <<"A", "B", "C", "D", "E", "F", "G", "H", "I", "J", "K", "L", "M", "N", "O", "P", "Q", "R", "S", "T", "U", "V", "W", "X", "Y", "Z">>
LowerLetters ==
    <<"a", "b", "c", "d", "e", "f", "g", "h", "i", "j", "k", "l", "m", "n", "o", "p", "q", "r", "s", "t", "u", "v", "w", "x", "y", "z">>

\* String.prototype.toLowerCase, character by character
ToLowerCaseChars(label) ==
    [i \in 1..Len(label) |->
        IF \E k \in 1..Len(UpperLetters) : UpperLetters[k] = label[i]
        THEN LowerLetters[CHOOSE k \in 1..Len(UpperLetters) :
                             UpperLetters[k] = label[i]]
        ELSE label[i]]

\* String.prototype.includes
Includes(text, key) ==
    \E i \in 0..(Len(text) - Len(key)) :
        SubSeq(text, i + 1, i + Len(key)) = key

RECURSIVE FirstMatch_Last(_, _)
FirstMatch_Last(lowerType, i) ==
    IF i > Len(TypeMap) THEN "other"
    ELSE IF FirstMatch_Last(lowerType, i + 1) # "other"
    THEN FirstMatch_Last(lowerType, i + 1)
    ELSE IF Includes(lowerType, TypeMap[i].key) THEN TypeMap[i].value
    ELSE "other"

\* for (const [key, value] of Object.entries(typeMap)), from entry i on
RECURSIVE FirstMatch(_, _)
FirstMatch(lowerType, i) ==
    IF i > Len(TypeMap) THEN "other"
    ELSE IF Includes(lowerType, TypeMap[i].key) THEN TypeMap[i].value
    ELSE FirstMatch(lowerType, i + 1)

\* mapEventType(externalType)
MapEventType(externalType) == FirstMatch(ToLowerCaseChars(externalType), 1)

(***************************************************************************)
(* calendarSync.parseICalendar and generateICalendar.  A location is       *)
(* either the object of the CalendarEvent schema or a string.              *)
(***************************************************************************)
NoText == "undefined"

\* location of the CalendarEvent schema: a nested object
ObjectLocation(building, room) ==
    [kind |-> "object", building |-> building, room |-> room, text |-> ""]

\* a location that is a string
StringLocation(text) ==
    [kind |-> "string", building |-> "", room |-> "", text |-> text]

\* event.location || '' of a parsed component
ParsedLocation(text) ==
    IF text = NoText THEN StringLocation("") ELSE StringLocation(text)

\* this.mapEventType(event.categories?.[0] || 'other')
ParsedEventType(categories) ==
    IF categories = <<>> \/ categories[1] = <<>>
    THEN MapEventType(EventTypeChars["other"])
    ELSE MapEventType(categories[1])

\* calendarSyncService.parseICalendar: of the components node-ical found,
\* the VEVENTs, each with what it carries
RECURSIVE ParseICalendar(_)
ParseICalendar(components) ==
    IF components = <<>> THEN <<>>
    ELSE IF Head(components).type = "VEVENT"
    THEN <<[title |-> Head(components).summary,
            startDateTime |-> Head(components).start,
            endDateTime |-> Head(components).end,
            location |-> ParsedLocation(Head(components).location),
            eventType |-> ParsedEventType(Head(components).categories)]>>
         \o ParseICalendar(Tail(components))
    ELSE ParseICalendar(Tail(components))

\* the paths of calendarEventSchema a document of the model can hold
EventSchemaPaths ==
    {"professor", "class", "startDateTime", "endDateTime", "isAllDay",
     "attendees", "version", "isVisible"}

\* new CalendarEvent(data) under the schema's strict mode: a field that is
\* not a path of the schema is not part of the document
StrictCast(data) ==
    [f \in DOMAIN data \cap EventSchemaPaths |-> data[f]]

\* POST /api/calendar/import/ical, up to the loop over the parsed events
ImportBegin(r, prof, hasContent, components, classId) ==
    /\ FreeSlot(ereqs, r)
    /\ IF hasContent THEN TRUE ELSE components = <<>>
    /\ LET req == [EReqIdle EXCEPT !.op = "import", !.prof = prof,
                                   !.class = classId]
       IN ereqs' = [ereqs EXCEPT ![r] =
            IF ~hasContent
            THEN EDone(req, 400, "iCalendar content is required", "none")
            ELSE [req EXCEPT !.pc = "importing",
                             !.items = ParseICalendar(components)]]
    /\ UNCHANGED <<classes, grades, nextGradeId, greqs, creqs, events, calc, files, students, sreqs>>

\* POST /api/calendar/import/ical: one turn of the loop (event.save() of the
\* next parsed event; an error ends the request), or the response after the
\* last turn
ImportStep(r) ==
    /\ ereqs[r].op = "import" /\ ereqs[r].pc = "importing"
    /\ LET req == ereqs[r]
       IN IF req.items = <<>>
          THEN /\ ereqs' = [ereqs EXCEPT ![r] =
                     EDone(req, 201, "Successfully imported events", "none")]
               /\ UNCHANGED events
          ELSE LET res == SaveNewEvent(StrictCast(
                      [professor |-> req.prof, class |-> req.class,
                       startDateTime |-> Head(req.items).startDateTime,
                       endDateTime |-> Head(req.items).endDateTime,
                       isAllDay |-> FALSE, attendees |-> <<>>, version |-> 0,
                       isVisible |-> TRUE, isExternal |-> TRUE]))
               IN /\ Len(events) < MaxEvents
                  /\ IF res.error # "none"
                     THEN /\ ereqs' = [ereqs EXCEPT ![r] =
                                EDone(req, 500, "Failed to import calendar", res.error)]
                          /\ UNCHANGED events
                     ELSE /\ events' = Append(events, res.doc)
                          /\ ereqs' = [ereqs EXCEPT ![r].items = Tail(req.items)]
    /\ UNCHANGED <<classes, grades, nextGradeId, greqs, creqs, calc, files, students, sreqs>>

FindAttendee_First(attendees, str) == IF attendees = <<>> THEN 0 ELSE 1

\* the position of the first attendee a with a.student.toString() === str,
\* 0 when there is none
FindAttendee(attendees, str) ==
    LET hits == {i \in 1..Len(attendees) : OidToString(attendees[i].student) = str}
    IN IF hits = {} THEN 0 ELSE CHOOSE i \in hits : \A j \in hits : i <= j

\* studentIds.forEach(...): the subdocuments the loop pushes onto the
\* in-memory attendees array
RECURSIVE PushNew(_, _)
PushNew(attendees, studentIds) ==
    IF studentIds = <<>> THEN <<>>
    ELSE IF FindAttendee(attendees, Head(studentIds)) # 0
    THEN PushNew(attendees, Tail(studentIds))
    ELSE LET sub == [student |-> CastObjectId(Head(studentIds)),
                     status |-> "invited"]
         IN <<sub>> \o PushNew(Append(attendees, sub), Tail(studentIds))

\* POST /api/calendar/events/:id/attendees, up to event.save():
\* CalendarEvent.findOne and the loop over studentIds.  A string that is no
\* ObjectId leaves a subdocument without student, and the handler throws.
AddAttendeesBegin(r, prof, id, isArray, studentIds) ==
    /\ FreeSlot(ereqs, r)
    /\ IF isArray THEN TRUE ELSE studentIds = <<>>
    /\ LET req == [EReqIdle EXCEPT !.op = "addAttendees", !.prof = prof,
                                   !.event = id, !.isArray = isArray,
                                   !.studentIds = studentIds]
       IN ereqs' = [ereqs EXCEPT ![r] =
            IF ~isArray
            THEN EDone(req, 400, "Student IDs array is required", "none")
            ELSE IF FindEvent(id, prof) = 0
            THEN EDone(req, 404, "Calendar event not found", "none")
            ELSE IF \E i \in 1..Len(studentIds) :
                        CastObjectId(studentIds[i]) = NoOid
            THEN EDone(req, 500, "Failed to add attendees", "CastError")
            ELSE [req EXCEPT
                    !.pc = "save",
                    !.version = events[id].version,
                    !.rangeOk = RangeValid(events[id].startDateTime,
                                           events[id].endDateTime),
                    !.pushed = PushNew(events[id].attendees, studentIds)]]
    /\ UNCHANGED <<classes, grades, nextGradeId, greqs, creqs, events, calc, files, students, sreqs>>

\* POST /api/calendar/events/:id/attendees: event.save() and the response.
\* The pre-save hook checks the document as it was read; the update sent is
\* the change alone, {$push: {attendees: {$each: pushed}}, $inc: {__v: 1}}
\* on {_id}, and nothing is sent when nothing was pushed.
AddAttendeesSave(r) ==
    /\ ereqs[r].op = "addAttendees" /\ ereqs[r].pc = "save"
    /\ LET req == ereqs[r]
       IN IF ~req.rangeOk
          THEN /\ ereqs' = [ereqs EXCEPT ![r] =
                     EDone(req, 500, "Failed to add attendees",
                           "End date and time must be after start date and time")]
               /\ UNCHANGED events
          ELSE /\ events' =
                     IF req.pushed = <<>> THEN events
                     ELSE [events EXCEPT
                             ![req.event].attendees = @ \o req.pushed,
                             ![req.event].version = @ + 1]
               /\ ereqs' = [ereqs EXCEPT ![r] =
                     EDone(req, 200, "Attendees added successfully", "none")]
    /\ UNCHANGED <<classes, grades, nextGradeId, greqs, creqs, calc, files, students, sreqs>>

\* PUT /api/calendar/events/:id/attendees/:studentId/status, up to
\* event.save(): the status check, CalendarEvent.findOne, the search for the
\* attendee and the assignment to its status
SetAttendeeStatusBegin(r, prof, id, studentId, newStatus) ==
    /\ FreeSlot(ereqs, r)
    /\ LET req == [EReqIdle EXCEPT !.op = "setAttendeeStatus", !.prof = prof,
                                   !.event = id, !.studentId = studentId,
                                   !.newStatus = newStatus]
           idx == FindAttendee(events[id].attendees, studentId)
       IN ereqs' = [ereqs EXCEPT ![r] =
            IF newStatus \notin AttendeeStatuses
            THEN EDone(req, 400, "Invalid status", "none")
            ELSE IF FindEvent(id, prof) = 0
            THEN EDone(req, 404, "Calendar event not found", "none")
            ELSE IF idx = 0
            THEN EDone(req, 404, "Attendee not found", "none")
            ELSE [req EXCEPT
                    !.pc = "save",
                    !.version = events[id].version,
                    !.rangeOk = RangeValid(events[id].startDateTime,
                                           events[id].endDateTime),
                    !.idx = idx,
                    !.modified = (events[id].attendees[idx].status # newStatus)]]
    /\ UNCHANGED <<classes, grades, nextGradeId, greqs, creqs, events, calc, files, students, sreqs>>

\* PUT /api/calendar/events/:id/attendees/:studentId/status: event.save()
\* and the response.  The update sent is the change alone,
\* {$set: {'attendees.<idx>.status': newStatus}} on {_id, __v: version}; it
\* fails with a VersionError when no document matches, and nothing is sent
\* when the status was already the one asked for.
SetAttendeeStatusSave(r) ==
    /\ ereqs[r].op = "setAttendeeStatus" /\ ereqs[r].pc = "save"
    /\ LET req == ereqs[r]
       IN IF ~req.rangeOk
          THEN /\ ereqs' = [ereqs EXCEPT ![r] =
                     EDone(req, 500, "Failed to update attendee status",
                           "End date and time must be after start date and time")]
               /\ UNCHANGED events
          ELSE IF ~req.modified
          THEN /\ ereqs' = [ereqs EXCEPT ![r] =
                     EDone(req, 200, "Attendee status updated successfully", "none")]
               /\ UNCHANGED events
          ELSE IF events[req.event].version # req.version
          THEN /\ ereqs' = [ereqs EXCEPT ![r] =
                     EDone(req, 500, "Failed to update attendee status", "VersionError")]
               /\ UNCHANGED events
          ELSE /\ events' = [events EXCEPT
                     ![req.event].attendees[req.idx].status = req.newStatus]
               /\ ereqs' = [ereqs EXCEPT ![r] =
                     EDone(req, 200, "Attendee status updated successfully", "none")]
    /\ UNCHANGED <<classes, grades, nextGradeId, greqs, creqs, calc, files, students, sreqs>>

(***************************************************************************)
(* The initial state: a class of professor p1 with student s1 enrolled and *)
(* student s2 dropped, a class of professor p2 with student s2 enrolled;   *)
(* no grades, no events, no request under way.                             *)
(***************************************************************************)

\* the students of the initial state: s1 (A1, a@x.e) and s2 (A2, b@x.e),
\* both active, no notes; student ids and emails are strings of characters
InitStudents ==
    [oid \in StudentOids |->
        [studentId |-> IF oid = "s1" THEN <<"A", "1">> ELSE <<"A", "2">>,
         email |-> IF oid = "s1" THEN <<"a", "@", "x", ".", "e">>
                                 ELSE <<"b", "@", "x", ".", "e">>,
         firstName |-> "Ann", isActive |-> TRUE, notes |-> 0]]

\* no student request under way
SReqIdle ==
    [pc |-> "idle", op |-> "none", prof |-> "none", id |-> "none",
     studentId |-> <<>>, email |-> <<>>, firstName |-> "none",
     hasAccess |-> FALSE, status |-> 0, message |-> "none"]

\* no computation under way
NoCalc == [op |-> "none"]

InitClass1 ==
    [professor |-> "p1", courseCode |-> "CS1", semester |-> "Fall",
     year |-> 2024, startTime |-> <<9, 0>>, endTime |-> <<10, 0>>,
     enrolledStudents |-> <<[student |-> "s1", status |-> "enrolled"],
                            [student |-> "s2", status |-> "dropped"]>>,
     maxEnrollment |-> 2, version |-> 2]

InitClass2 ==
    [professor |-> "p2", courseCode |-> "CS1", semester |-> "Fall",
     year |-> 2024, startTime |-> <<9, 0>>, endTime |-> <<10, 0>>,
     enrolledStudents |-> <<[student |-> "s2", status |-> "enrolled"]>>,
     maxEnrollment |-> 1, version |-> 1]

Init ==
    /\ classes = <<InitClass1, InitClass2>>
    /\ grades = {}
    /\ nextGradeId = 0
    /\ greqs = [r \in Slots |-> GIdle]
    /\ creqs = [r \in Slots |-> CReqIdle]
    /\ events = <<>>
    /\ ereqs = [r \in ESlots |-> EReqIdle]
    /\ sreqs = [r \in Slots |-> SReqIdle]
    /\ students = InitStudents
    /\ files = NoFiles
    /\ calc = NoCalc

NextGrades ==
    \/ \E r \in Slots, prof \in Professors, student \in IdStrings,
          class \in 1..3, name \in AssignmentNames :
            CreateGradeBegin(r, prof, student, class, name)
    \/ \E r \in Slots : CreateGradeFindExisting(r)
    \/ \E r \in Slots : CreateGradeSave(r)
    \/ \E r \in Slots, prof \in Professors, body \in BulkBodies :
            BulkCreateGrades(r, prof, body)
    \/ \E r \in Slots, prof \in Professors, id \in 1..nextGradeId,
          body \in BulkDocs :
            UpdateGrade(r, prof, id, body)
    \/ \E r \in Slots, prof \in Professors, id \in 1..nextGradeId :
            DeleteGrade(r, prof, id)

SpecGrades == Init /\ [][NextGrades]_vars

\* POST /api/grades requests alone
NextGradeCreates ==
    \/ \E r \in Slots, prof \in Professors, student \in IdStrings,
          class \in 1..3, name \in AssignmentNames :
            CreateGradeBegin(r, prof, student, class, name)
    \/ \E r \in Slots : CreateGradeFindExisting(r)
    \/ \E r \in Slots : CreateGradeSave(r)

SpecGradeCreates == Init /\ [][NextGradeCreates]_vars

NextClassCreates ==
    \/ \E r \in Slots, prof \in Professors, courseCode \in CourseCodes,
          schedule \in Schedules :
            CreateClassBegin(r, prof, courseCode, schedule)
    \/ \E r \in Slots : CreateClassSave(r)

SpecClassCreates == Init /\ [][NextClassCreates]_vars

NextClasses ==
    \/ NextClassCreates
    \/ \E r \in Slots, prof \in Professors, id \in 1..MaxClasses,
          courseCode \in CourseCodes, schedule \in Schedules :
            UpdateClass(r, prof, id, courseCode, schedule)

SpecClasses == Init /\ [][NextClasses]_vars


\* the bodies of event requests whose times and all-day flag vary
EventBodies ==
    [class : {0, 1}, startDateTime : Instants, endDateTime : Instants,
     isAllDay : BOOLEAN, attendees : {<<>>}]

EventUpdates ==
    [startDateTime : Instants \cup {Absent},
     endDateTime : Instants \cup {Absent},
     isAllDay : {Keep, "true", "false"}]

ImportComponents ==
    { [type |-> "VTODO", summary |-> "todo", start |-> 0, end |-> 1,
       location |-> NoText, categories |-> <<>>],
      [type |-> "VEVENT", summary |-> "event", start |-> 0, end |-> 1,
       location |-> NoText, categories |-> <<>>],
      [type |-> "VEVENT", summary |-> "event", start |-> 1, end |-> 1,
       location |-> NoText, categories |-> <<>>],
      [type |-> "VEVENT", summary |-> "event", start |-> 2, end |-> Absent,
       location |-> NoText, categories |-> <<>>] }

ImportTexts == UNION {[1..n -> ImportComponents] : n \in 0..MaxImport}

NextEvents ==
    \/ \E r \in Slots, prof \in Professors, body \in EventBodies :
            CreateEvent(r, prof, body)
    \/ \E r \in Slots, prof \in Professors, body \in EventBodies :
            CreateEventFindClass(r, prof, body)
    \/ \E r \in Slots : CreateEventSave(r)
    \/ \E r \in Slots, prof \in Professors, id \in 1..MaxEvents,
          body \in EventUpdates :
            UpdateEvent(r, prof, id, body)
    \/ \E r \in Slots, prof \in Professors, hasContent \in BOOLEAN,
          components \in ImportTexts, classId \in {0, 1} :
            ImportBegin(r, prof, hasContent, components, classId)
    \/ \E r \in Slots : ImportStep(r)

SpecEvents == Init /\ [][NextEvents]_vars

\* the bodies of event requests that give the event its first attendees
AttendeeEventBodies ==
    [class : {0}, startDateTime : {0}, endDateTime : {1}, isAllDay : {FALSE},
     attendees : {<<>>, <<"s1">>, <<"s1", "s2">>}]

AttendeeEventUpdates ==
    [startDateTime : {Absent}, endDateTime : {0, 2}, isAllDay : {Keep}]

StudentIdLists == UNION {[1..n -> IdStrings] : n \in 0..MaxIds}

StatusInputs == {"invited", "accepted", "maybe"}

NextAttendeeRequests ==
    \/ \E r \in ESlots, prof \in Professors, id \in 1..MaxEvents,
          isArray \in BOOLEAN, studentIds \in StudentIdLists :
            AddAttendeesBegin(r, prof, id, isArray, studentIds)
    \/ \E r \in ESlots : AddAttendeesSave(r)
    \/ \E r \in ESlots, prof \in Professors, id \in 1..MaxEvents,
          studentId \in IdStrings, newStatus \in StatusInputs :
            SetAttendeeStatusBegin(r, prof, id, studentId, newStatus)
    \/ \E r \in ESlots : SetAttendeeStatusSave(r)

NextAttendees ==
    \/ \E r \in ESlots, prof \in Professors, body \in AttendeeEventBodies :
            CreateEvent(r, prof, body)
    \/ \E r \in ESlots, prof \in Professors, id \in 1..MaxEvents,
          body \in AttendeeEventUpdates :
            UpdateEvent(r, prof, id, body)
    \/ NextAttendeeRequests

SpecAttendees == Init /\ [][NextAttendees]_vars


\* attendee requests that carry every student id in its canonical form,
\* running concurrently
CanonicalIdLists == UNION {[1..n -> StudentOids] : n \in 0..MaxIds}

NextAttendeeRace ==
    \/ \E r \in ESlots, prof \in Professors, body \in AttendeeEventBodies :
            CreateEvent(r, prof, body)
    \/ \E r \in ESlots, prof \in Professors, id \in 1..MaxEvents,
          studentIds \in CanonicalIdLists :
            AddAttendeesBegin(r, prof, id, TRUE, studentIds)
    \/ \E r \in ESlots : AddAttendeesSave(r)
    \/ \E r \in ESlots, prof \in Professors, id \in 1..MaxEvents,
          studentId \in StudentOids, newStatus \in StatusInputs :
            SetAttendeeStatusBegin(r, prof, id, studentId, newStatus)
    \/ \E r \in ESlots : SetAttendeeStatusSave(r)

SpecAttendeeRace == Init /\ [][NextAttendeeRace]_vars

\* attendee requests sent one after the other: a request is sent when every
\* earlier one was answered
AllAnswered == \A r \in ESlots : ereqs[r].pc \in {"idle", "done"}

NextAttendeesSerial ==
    \/ \E r \in ESlots, prof \in Professors, body \in AttendeeEventBodies :
            CreateEvent(r, prof, body)
    \/ \E r \in ESlots, prof \in Professors, id \in 1..MaxEvents,
          isArray \in BOOLEAN, studentIds \in StudentIdLists :
            AllAnswered /\ AddAttendeesBegin(r, prof, id, isArray, studentIds)
    \/ \E r \in ESlots : AddAttendeesSave(r)
    \/ \E r \in ESlots, prof \in Professors, id \in 1..MaxEvents,
          studentId \in IdStrings, newStatus \in StatusInputs :
            AllAnswered /\ SetAttendeeStatusBegin(r, prof, id, studentId, newStatus)
    \/ \E r \in ESlots : SetAttendeeStatusSave(r)

SpecAttendeesSerial == Init /\ [][NextAttendeesSerial]_vars


(***************************************************************************)
(* Grades: the claims.                                                     *)
(***************************************************************************)
\* a create request that ran into a grade already stored for its triple,
\* at its own findOne or at the unique index when it saved
MetExistingGrade(req) ==
    /\ req.op = "create" /\ req.pc = "done"
    /\ \/ req.message = "Grade already exists for this assignment"
       \/ req.error = "E11000"

\* C1: a create-grade request for a (student, class, assignment name) triple
\* that already has a grade is answered with the 4xx duplicate response, not
\* with a generic failure, also when it lost a race against a concurrent
\* create of the same triple.
C1_DuplicateCreateAnswered4xx ==
    \A r \in Slots :
        MetExistingGrade(greqs[r]) =>
            /\ greqs[r].status = 400
            /\ greqs[r].message = "Grade already exists for this assignment"

\* C2: the grade store never holds two grades with the same
\* (student, class, assignment name) triple.
C2_UniqueGradeKeys ==
    \A g1 \in grades : \A g2 \in grades :
        GradeKey(g1) = GradeKey(g2) => g1.id = g2.id

\* a write of a triple that is already stored was attempted, by an update
\* and by a create or bulk request, and refused
C2_Witness_DuplicateRefused ==
    /\ \E r \in Slots : greqs[r].op = "update" /\ greqs[r].error = "E11000"
    /\ Cardinality(grades) >= 2

\* C7: every grade a grade-creating request (single or bulk) stores is for a
\* student who is enrolled, with status enrolled, in the referenced class.
C7_CreatedGradesAreForEnrolled ==
    [][\A g \in grades' :
          g.id > nextGradeId =>
             /\ g.class \in 1..Len(classes)
             /\ IsEnrolled(classes[g.class], OidToString(g.student))]_vars

(***************************************************************************)
(* Classes: the claims.                                                    *)
(***************************************************************************)
\* C3: no two stored classes share the same (professor, upper-cased
\* courseCode, semester, year); of two concurrent creates of one key exactly
\* one succeeds.
C3_UniqueClassKeys ==
    \A i \in 1..Len(classes) : \A j \in 1..Len(classes) :
        ClassKey(classes[i]) = ClassKey(classes[j]) => i = j

\* C6: every stored class has a schedule end time strictly after its start
\* time, both taken as minutes since midnight.
C6_ScheduleEndAfterStart ==
    \A i \in 1..Len(classes) :
        TimeMinutes(classes[i].endTime) > TimeMinutes(classes[i].startTime)

(***************************************************************************)
(* Calendar events: the claims.                                            *)
(***************************************************************************)
\* C4: every calendar event in the store has endDateTime strictly after
\* startDateTime, after any sequence of event create, event update and
\* iCalendar import requests.
C4_EventEndAfterStart ==
    \A i \in 1..Len(events) :
        events[i].endDateTime > events[i].startDateTime

\* C5: a create-event request whose endDateTime is equal to or earlier than
\* its startDateTime is answered with a 4xx response (InvalidRangeError).
C5_InvalidRangeAnswered4xx ==
    \A r \in ESlots :
        ( /\ ereqs[r].op = "create" /\ ereqs[r].pc = "done"
          /\ ereqs[r].error = "End date and time must be after start date and time" )
        => ereqs[r].status \in 400..499

\* C8: whatever the interleaving of the requests that change one event's
\* attendee list, the list is one a serial order of them produces; in
\* particular no student appears in it twice.
C8_NoStudentTwiceUnderConcurrency ==
    \A e \in 1..Len(events) :
        \A i \in 1..Len(events[e].attendees) :
            \A j \in 1..Len(events[e].attendees) :
                events[e].attendees[i].student = events[e].attendees[j].student
                    => i = j

\* what the claim says addAttendees makes of an attendee list: one invited
\* entry is appended for every student of ids that has none yet, in the
\* order of first mention
RECURSIVE WithInvited(_, _)
WithInvited(attendees, ids) ==
    IF ids = <<>> THEN attendees
    ELSE IF \E i \in 1..Len(attendees) :
               attendees[i].student = CastObjectId(Head(ids))
    THEN WithInvited(attendees, Tail(ids))
    ELSE WithInvited(Append(attendees,
                            [student |-> CastObjectId(Head(ids)),
                             status |-> "invited"]),
                     Tail(ids))

\* C9: an addAttendees request appends one invited entry for each student
\* that has no entry yet (an id already present or repeated in the call adds
\* nothing, the entries present keep their status), and the same call made
\* again would add nothing.
C9_AddAttendeesOncePerStudent ==
    [][\A r \in ESlots :
          ( /\ ereqs[r].op = "addAttendees" /\ ereqs[r].pc = "save"
            /\ ereqs'[r].pc = "done" /\ ereqs'[r].status = 200 )
          => /\ events'[ereqs[r].event].attendees =
                   WithInvited(events[ereqs[r].event].attendees,
                               ereqs[r].studentIds)
             /\ PushNew(events'[ereqs[r].event].attendees,
                        ereqs[r].studentIds) = <<>>]_vars

\* the event has an attendee entry for the student the string names
HasAttendee(id, str) ==
    \E i \in 1..Len(events[id].attendees) :
        events[id].attendees[i].student = CastObjectId(str)

Storable(item) ==
    SaveNewEvent([professor |-> "p1", class |-> 0,
                  startDateTime |-> item.startDateTime,
                  endDateTime |-> item.endDateTime,
                  isAllDay |-> FALSE, attendees |-> <<>>,
                  version |-> 0]).error = "none"

\* C11: each VEVENT of an import is processed independently: when the import
\* request is answered, no VEVENT that can be stored is left unimported
\* because another VEVENT of the same import could not be stored.
C11_ImportProcessesEachEvent ==
    [][\A r \in ESlots :
          ( /\ ereqs[r].op = "import" /\ ereqs[r].pc = "importing"
            /\ ereqs'[r].pc = "done" )
          => \A i \in 1..Len(ereqs[r].items) :
                i > 1 => ~Storable(ereqs[r].items[i])]_vars

(***************************************************************************)
(* Grade scores: what saving a grade derives.  Points are whole numbers,   *)
(* a percentage is counted in hundredths of a percent (97.00 is 9700).     *)
(***************************************************************************)
PointValues == {0, 1, 2, 50, 5999, 9699, 9700, 15000}
MaxPointValues == {0, 3, 100, 10000}
PercentageInputs == {Absent, 0, 9500, 15000}
LetterGrades ==
    {"A+", "A", "A-", "B+", "B", "B-", "C+", "C", "C-", "D+", "D", "D-",
     "F", "I", "W"}
NoLetter == "absent"
LetterInputs == {NoLetter, "B"}

MathRound_Floor(num, den) == num \div den

\* Math.round(num / den): the nearest integer, a half goes up
MathRound(num, den) == (2 * num + den) \div (2 * den)

\* gradeSchema.virtual('calculatedPercentage'):
\* Math.round((points / maxPoints) * 100 * 100) / 100
CalculatedPercentage(points, maxPoints) ==
    IF maxPoints = 0 THEN 0 ELSE MathRound(points * 10000, maxPoints)

\* gradeSchema.virtual('calculatedLetterGrade'), of calculatedPercentage
CalculatedLetterGrade(percentage) ==
    IF percentage >= 9700 THEN "A+"
    ELSE IF percentage >= 9300 THEN "A"
    ELSE IF percentage >= 9000 THEN "A-"
    ELSE IF percentage >= 8700 THEN "B+"
    ELSE IF percentage >= 8300 THEN "B"
    ELSE IF percentage >= 8000 THEN "B-"
    ELSE IF percentage >= 7700 THEN "C+"
    ELSE IF percentage >= 7300 THEN "C"
    ELSE IF percentage >= 7000 THEN "C-"
    ELSE IF percentage >= 6700 THEN "D+"
    ELSE IF percentage >= 6300 THEN "D"
    ELSE IF percentage >= 6000 THEN "D-"
    ELSE "F"

\* the validators of the score paths, run before the pre('save') hook
ScoreValid(score) ==
    /\ score.points >= 0
    /\ score.maxPoints >= 0
    /\ score.percentage = Absent \/ score.percentage \in 0..10000
    /\ score.letterGrade = NoLetter \/ score.letterGrade \in LetterGrades

\* gradeSchema.pre('save'): !this.score.percentage holds of an absent
\* percentage and of 0
GradePreSave(score) ==
    [score EXCEPT
       !.percentage =
          IF (@ = Absent \/ @ = 0) /\ score.maxPoints > 0
          THEN CalculatedPercentage(score.points, score.maxPoints)
          ELSE @,
       !.letterGrade =
          IF @ = NoLetter
          THEN CalculatedLetterGrade(
                  CalculatedPercentage(score.points, score.maxPoints))
          ELSE @]

ScoreInputs ==
    [points : PointValues, maxPoints : MaxPointValues,
     percentage : PercentageInputs, letterGrade : LetterInputs]

InitScore ==
    /\ classes = <<InitClass1, InitClass2>>
    /\ grades = {}
    /\ nextGradeId = 0
    /\ greqs = [r \in Slots |-> GIdle]
    /\ creqs = [r \in Slots |-> CReqIdle]
    /\ events = <<>>
    /\ ereqs = [r \in ESlots |-> EReqIdle]
    /\ sreqs = [r \in Slots |-> SReqIdle]
    /\ students = InitStudents
    /\ files = NoFiles
    /\ calc \in [op : {"saveGrade"}, pc : {"new"}, given : ScoreInputs,
                 score : {NoCalc}]

\* new Grade(gradeData).save(): validation, then the pre('save') hook
SaveGradeScore ==
    /\ calc.op = "saveGrade" /\ calc.pc = "new"
    /\ calc' = IF ScoreValid(calc.given)
               THEN [calc EXCEPT !.pc = "saved",
                                 !.score = GradePreSave(calc.given)]
               ELSE [calc EXCEPT !.pc = "invalid"]
    /\ UNCHANGED <<classes, grades, nextGradeId, greqs, creqs, events, ereqs, files, students, sreqs>>

NextScore == SaveGradeScore

SpecScore == InitScore /\ [][NextScore]_vars

\* C12: a grade saved with points p >= 0, maxPoints m > 0 and no percentage
\* has the percentage p / m * 100 rounded to two decimals: the stored value
\* is within half a hundredth of p / m * 100.
C12_PercentageRounded ==
    ( /\ calc.op = "saveGrade" /\ calc.pc = "saved"
      /\ calc.given.percentage = Absent /\ calc.given.maxPoints > 0 )
    => LET d == calc.score.percentage * calc.given.maxPoints
                   - calc.given.points * 10000
       IN /\ 2 * d <= calc.given.maxPoints
          /\ 2 * (0 - d) <= calc.given.maxPoints

\* a grade was saved whose percentage is not a whole number of hundredths
\* before rounding, and it was rounded up
C12_Witness_RoundedUp ==
    /\ calc.op = "saveGrade" /\ calc.pc = "saved"
    /\ calc.given.percentage = Absent /\ calc.given.maxPoints > 0
    /\ calc.score.percentage * calc.given.maxPoints > calc.given.points * 10000

\* C13: a grade saved with maxPoints = 0 and no percentage has the
\* percentage 0.
C13_ZeroMaxPointsGivesZero ==
    ( /\ calc.op = "saveGrade" /\ calc.pc = "saved"
      /\ calc.given.percentage = Absent /\ calc.given.maxPoints = 0 )
    => calc.score.percentage = 0

\* the table of the letter bands, from the top
BandTable ==
    << <<9700, "A+">>, <<9300, "A">>, <<9000, "A-">>, <<8700, "B+">>,
       <<8300, "B">>, <<8000, "B-">>, <<7700, "C+">>, <<7300, "C">>,
       <<7000, "C-">>, <<6700, "D+">>, <<6300, "D">>, <<6000, "D-">> >>

\* the first band of the table whose threshold the percentage reaches
FirstBand(percentage) ==
    LET reached == {i \in 1..Len(BandTable) : percentage >= BandTable[i][1]}
    IN IF reached = {} THEN "F"
       ELSE BandTable[CHOOSE i \in reached : \A j \in reached : i <= j][2]

\* C14: a grade saved without a letter grade has the letter of the first
\* band whose threshold its percentage reaches.
C14_LetterFollowsPercentage ==
    ( /\ calc.op = "saveGrade" /\ calc.pc = "saved"
      /\ calc.given.letterGrade = NoLetter )
    => calc.score.letterGrade = FirstBand(calc.score.percentage)

(***************************************************************************)
(* The grade summary of a class.  The grades are the result of             *)
(* Grade.find({class, professor}); percentages are in hundredths.          *)
(***************************************************************************)
MaxSummaryGrades == 3

SummaryStudents == {"s1", "s2", "s3"}

\* points, maxPoints and the flags isExcused / isExtra of the grades
SummaryScores ==
    { [points |-> 100, maxPoints |-> 100, isExcused |-> FALSE, isExtra |-> FALSE],
      [points |-> 80, maxPoints |-> 100, isExcused |-> FALSE, isExtra |-> FALSE],
      [points |-> 1, maxPoints |-> 3, isExcused |-> FALSE, isExtra |-> FALSE],
      [points |-> 0, maxPoints |-> 0, isExcused |-> FALSE, isExtra |-> FALSE],
      [points |-> 50, maxPoints |-> 100, isExcused |-> TRUE, isExtra |-> FALSE],
      [points |-> 50, maxPoints |-> 100, isExcused |-> FALSE, isExtra |-> TRUE] }

SummaryGrades == [student : SummaryStudents, score : SummaryScores]

SummaryGradeLists ==
    UNION {[1..n -> SummaryGrades] : n \in 0..MaxSummaryGrades}

\* grades.forEach(grade => ...): the entry of the grade's student is made
\* when the student is first met, every grade is pushed to it and the
\* points of a grade neither excused nor extra are added
RECURSIVE GroupByStudent(_, _)
GroupByStudent(gs, studentGrades) ==
    IF gs = <<>> THEN studentGrades
    ELSE LET grade == Head(gs)
             known == \E i \in 1..Len(studentGrades) :
                         studentGrades[i].student = grade.student
             withEntry ==
                IF known THEN studentGrades
                ELSE Append(studentGrades,
                            [student |-> grade.student, grades |-> 0,
                             totalPoints |-> 0, maxTotalPoints |-> 0,
                             percentage |-> 0])
             k == CHOOSE i \in 1..Len(withEntry) :
                     withEntry[i].student = grade.student
             counted == ~grade.score.isExcused /\ ~grade.score.isExtra
         IN GroupByStudent(Tail(gs),
               [withEntry EXCEPT
                  ![k].grades = @ + 1,
                  ![k].totalPoints =
                      IF counted THEN @ + grade.score.points ELSE @,
                  ![k].maxTotalPoints =
                      IF counted THEN @ + grade.score.maxPoints ELSE @])

\* Object.values(studentGrades).forEach(student => ...): the percentage
FinalPercentages(studentGrades) ==
    [i \in 1..Len(studentGrades) |->
        [studentGrades[i] EXCEPT !.percentage =
            IF studentGrades[i].maxTotalPoints > 0
            THEN MathRound(studentGrades[i].totalPoints * 10000,
                           studentGrades[i].maxTotalPoints)
            ELSE @]]

RECURSIVE SeqSum(_)
SeqSum(q) == IF q = <<>> THEN 0 ELSE Head(q) + SeqSum(Tail(q))

RECURSIVE SeqMax(_)
SeqMax(q) ==
    IF Len(q) = 1 THEN q[1]
    ELSE IF Head(q) >= SeqMax(Tail(q)) THEN Head(q) ELSE SeqMax(Tail(q))

RECURSIVE SeqMin(_)
SeqMin(q) ==
    IF Len(q) = 1 THEN q[1]
    ELSE IF Head(q) <= SeqMin(Tail(q)) THEN Head(q) ELSE SeqMin(Tail(q))

RECURSIVE Percentages_All(_)
Percentages_All(studentGrades) ==
    IF studentGrades = <<>> THEN <<>>
    ELSE <<Head(studentGrades).percentage>>
         \o Percentages_All(Tail(studentGrades))

\* Object.values(studentGrades).map(s => s.percentage).filter(p => p > 0)
RECURSIVE Percentages(_)
Percentages(studentGrades) ==
    IF studentGrades = <<>> THEN <<>>
    ELSE (IF Head(studentGrades).percentage > 0
          THEN <<Head(studentGrades).percentage>> ELSE <<>>)
         \o Percentages(Tail(studentGrades))

\* the statistics object
Statistics(gs, studentGrades) ==
    LET percentages == Percentages(studentGrades)
    IN [totalStudents |-> Len(studentGrades),
        totalGrades |-> Len(gs),
        classAverage |->
            IF Len(percentages) > 0
            THEN MathRound(SeqSum(percentages), Len(percentages)) ELSE 0,
        highestGrade |->
            IF Len(percentages) > 0 THEN SeqMax(percentages) ELSE 0,
        lowestGrade |->
            IF Len(percentages) > 0 THEN SeqMin(percentages) ELSE 0]

\* the response of the handler of GET /api/grades/class/:classId/summary
ClassSummaryHandler(prof, classId, gs) ==
    IF FindClass(classId, prof) = 0
    THEN [status |-> 404, message |-> "Class not found",
          studentGrades |-> <<>>, statistics |-> NoCalc]
    ELSE LET studentGrades == FinalPercentages(GroupByStudent(gs, <<>>))
         IN [status |-> 200, message |-> "none",
             studentGrades |-> studentGrades,
             statistics |-> Statistics(gs, studentGrades)]

\* param('id'): the value of req.params.id as a string, '' when the route
\* has no parameter of that name
ParamId(params) == IF "id" \in DOMAIN params THEN params.id ELSE ""

\* paramValidation.mongoId, then the handler
ClassSummaryResponse(params, prof, classId, gs) ==
    IF ~IsMongoId(ParamId(params))
    THEN [status |-> 400, message |-> "Validation failed",
          studentGrades |-> <<>>, statistics |-> NoCalc]
    ELSE ClassSummaryHandler(prof, classId, gs)

InitSummary ==
    /\ classes = <<InitClass1, InitClass2>>
    /\ grades = {}
    /\ nextGradeId = 0
    /\ greqs = [r \in Slots |-> GIdle]
    /\ creqs = [r \in Slots |-> CReqIdle]
    /\ events = <<>>
    /\ ereqs = [r \in ESlots |-> EReqIdle]
    /\ sreqs = [r \in Slots |-> SReqIdle]
    /\ students = InitStudents
    /\ files = NoFiles
    /\ calc \in [op : {"classSummary"}, pc : {"new"}, prof : Professors,
                 classId : {1}, gs : SummaryGradeLists, res : {NoCalc}]

\* GET /api/grades/class/:classId/summary as a request: the route's
\* middleware and its handler
GetClassSummary ==
    /\ calc.op = "classSummary" /\ calc.pc = "new"
    /\ calc' = [calc EXCEPT !.pc = "done",
                  !.res = ClassSummaryResponse([classId |-> "s1"], calc.prof,
                                               calc.classId, calc.gs)]
    /\ UNCHANGED <<classes, grades, nextGradeId, greqs, creqs, events, ereqs, files, students, sreqs>>

NextSummaryRequest == GetClassSummary

SpecSummaryRequest == InitSummary /\ [][NextSummaryRequest]_vars

\* the handler of the route, called with a request that reached it
CallClassSummaryHandler ==
    /\ calc.op = "classSummary" /\ calc.pc = "new"
    /\ calc' = [calc EXCEPT !.pc = "done",
                  !.res = ClassSummaryHandler(calc.prof, calc.classId, calc.gs)]
    /\ UNCHANGED <<classes, grades, nextGradeId, greqs, creqs, events, ereqs, files, students, sreqs>>

NextSummary == CallClassSummaryHandler

SpecSummary == InitSummary /\ [][NextSummary]_vars

(***************************************************************************)
(* The grade summary of a class: the claims.                               *)
(***************************************************************************)
\* the sum of points (or of maxPoints) over the grades of the student that
\* are neither excused nor extra
RECURSIVE CountedSum(_, _, _)
CountedSum(gs, student, ofMax) ==
    IF gs = <<>> THEN 0
    ELSE (IF /\ Head(gs).student = student
             /\ ~Head(gs).score.isExcused /\ ~Head(gs).score.isExtra
          THEN IF ofMax THEN Head(gs).score.maxPoints
               ELSE Head(gs).score.points
          ELSE 0)
         + CountedSum(Tail(gs), student, ofMax)

\* q is num / den rounded to the nearest whole number
IsRounded(q, num, den) ==
    /\ 2 * (q * den - num) <= den
    /\ 2 * (num - q * den) <= den

\* C15: in the class grade summary the owning professor requests, every
\* student with a grade in the class has exactly one entry, with the sums of
\* points and maxPoints over the student's grades that are neither excused
\* nor extra and with their ratio as a percentage rounded to two decimals
\* (0 when maxTotalPoints is 0).
C15_SummaryEntryPerStudent ==
    ( /\ calc.op = "classSummary" /\ calc.pc = "done"
      /\ FindClass(calc.classId, calc.prof) # 0 )
    => /\ calc.res.status = 200
       /\ \A g \in 1..Len(calc.gs) :
            \E k \in 1..Len(calc.res.studentGrades) :
               LET e == calc.res.studentGrades[k]
                   student == calc.gs[g].student
               IN /\ e.student = student
                  /\ \A j \in 1..Len(calc.res.studentGrades) :
                        calc.res.studentGrades[j].student = student => j = k
                  /\ e.totalPoints = CountedSum(calc.gs, student, FALSE)
                  /\ e.maxTotalPoints = CountedSum(calc.gs, student, TRUE)
                  /\ IF e.maxTotalPoints = 0 THEN e.percentage = 0
                     ELSE IsRounded(e.percentage, e.totalPoints * 10000,
                                    e.maxTotalPoints)

\* the sum of the percentages of the entries at the positions in I
RECURSIVE PercentageSum(_, _)
PercentageSum(studentGrades, I) ==
    IF I = {} THEN 0
    ELSE LET i == CHOOSE x \in I : TRUE
         IN studentGrades[i].percentage
            + PercentageSum(studentGrades, I \ {i})

LabelWords ==
    { <<"E", "x", "a", "m">>,
      <<"c", "l", "a", "s", "s">>,
      <<"L", "A", "B">>,
      <<"t", "e", "s", "t">>,
      <<"M", "e", "e", "t", "i", "n", "g">>,
      <<"s", "y", "n", "c">>,
      <<"o", "f", "f", "i", "c", "e">>,
      <<"h", "o", "u", "r", "s">> }

Labels ==
    LabelWords
    \cup {a \o <<" ">> \o b : a \in LabelWords, b \in LabelWords}
    \cup { <<"M", "i", "d", "t", "e", "r", "m", " ", "E", "x", "a", "m", " ", "R", "e", "v", "i", "e", "w">>,
           <<"T", "e", "a", "m", " ", "S", "y", "n", "c">>,
           <<"P", "o", "t", "l", "u", "c", "k">>,
           <<>> }

InitMapEventType ==
    /\ classes = <<InitClass1, InitClass2>>
    /\ grades = {}
    /\ nextGradeId = 0
    /\ greqs = [r \in Slots |-> GIdle]
    /\ creqs = [r \in Slots |-> CReqIdle]
    /\ events = <<>>
    /\ ereqs = [r \in ESlots |-> EReqIdle]
    /\ sreqs = [r \in Slots |-> SReqIdle]
    /\ students = InitStudents
    /\ files = NoFiles
    /\ calc \in [op : {"mapEventType"}, pc : {"new"}, label : Labels,
                 res : {"none"}]

\* one call of mapEventType
CallMapEventType ==
    /\ calc.op = "mapEventType" /\ calc.pc = "new"
    /\ calc' = [calc EXCEPT !.pc = "done", !.res = MapEventType(calc.label)]
    /\ UNCHANGED <<classes, grades, nextGradeId, greqs, creqs, events, ereqs, files, students, sreqs>>

NextMapEventType == CallMapEventType

SpecMapEventType == InitMapEventType /\ [][NextMapEventType]_vars

\* the character is an upper-case letter and c is its lower-case form, or
\* it is not an upper-case letter and c is the character itself
LowerOf(char, c) ==
    IF \E k \in 1..26 : UpperLetters[k] = char
    THEN \E k \in 1..26 : UpperLetters[k] = char /\ LowerLetters[k] = c
    ELSE c = char

\* the keyword of table entry i occurs in the lower-cased label
KeywordOccurs(label, i) ==
    \E at \in 0..(Len(label) - Len(TypeMap[i].key)) :
        \A j \in 1..Len(TypeMap[i].key) :
            LowerOf(label[at + j], TypeMap[i].key[j])

\* C18: mapEventType returns the type of the earliest entry of the keyword
\* table whose keyword occurs in the lower-cased label, 'other' when no
\* keyword occurs, and always one of the 16 event types.
C18_FirstKeywordWins ==
    (calc.op = "mapEventType" /\ calc.pc = "done")
    => /\ calc.res \in EventTypes
       /\ IF \E i \in 1..Len(TypeMap) : KeywordOccurs(calc.label, i)
          THEN \E i \in 1..Len(TypeMap) :
                  /\ KeywordOccurs(calc.label, i)
                  /\ \A j \in 1..(i - 1) : ~KeywordOccurs(calc.label, j)
                  /\ calc.res = TypeMap[i].value
          ELSE calc.res = "other"

\* a label in which the keywords of two table entries with different types
\* occur was mapped ('LAB test': test, entry 4, before lab, entry 15)
C18_Witness_TwoKeywords ==
    /\ calc.op = "mapEventType" /\ calc.pc = "done"
    /\ \E i \in 1..Len(TypeMap), j \in 1..Len(TypeMap) :
         /\ i < j /\ TypeMap[i].value # TypeMap[j].value
         /\ KeywordOccurs(calc.label, i) /\ KeywordOccurs(calc.label, j)
         /\ \A h \in 1..(i - 1) : ~KeywordOccurs(calc.label, h)
         /\ calc.res = TypeMap[i].value

\* C19: mapEventType("Midterm Exam Review") is exam, mapEventType("Team
\* Sync") is meeting and mapEventType("Potluck") is other.
C19_MapEventTypeExamples ==
    (calc.op = "mapEventType" /\ calc.pc = "done")
    => /\ calc.label = <<"M", "i", "d", "t", "e", "r", "m", " ", "E", "x", "a", "m", " ", "R", "e", "v", "i", "e", "w">> => calc.res = "exam"
       /\ calc.label = <<"T", "e", "a", "m", " ", "S", "y", "n", "c">> => calc.res = "meeting"
       /\ calc.label = <<"P", "o", "t", "l", "u", "c", "k">> => calc.res = "other"

(***************************************************************************)
(* Export to iCalendar and parsing back.  Instants are in milliseconds.    *)
(***************************************************************************)
MaxExport == 2

\* start and end of the exported events: an hour, and a day as the all-day
\* normalisation leaves it (23:59:59.999)
ExportTimes == {<<0, 3600000>>, <<0, 86399999>>}

ExportLocations == {ObjectLocation("", ""), ObjectLocation("Science Hall", "101")}

ExportEvents ==
    {[title |-> "Lecture 1", startDateTime |-> t[1], endDateTime |-> t[2],
      location |-> l, eventType |-> e] :
        t \in ExportTimes, l \in ExportLocations, e \in EventTypes}

ExportEventLists == UNION {[1..n -> ExportEvents] : n \in 0..MaxExport}

\* what ical-generator makes of a location that is an object without a
\* title, by its version: the string conversion of the object, no LOCATION
\* property, or an exception
LocationOutcomes == {"[object Object]", NoText, "throws"}

\* an iCalendar DATE-TIME counts whole seconds
ICalDateTime(t) == (t \div 1000) * 1000

\* calendar.createEvent({start, end, summary, location, categories, ...})
\* and the component node-ical reads back from the text
CreateICalEvent(event, locationText) ==
    [type |-> "VEVENT", summary |-> event.title,
     start |-> ICalDateTime(event.startDateTime),
     end |-> ICalDateTime(event.endDateTime),
     location |-> locationText,
     categories |-> <<EventTypeChars[event.eventType]>>]

\* generateICalendar(events, professor)
GenerateICalendar(evs, locationText) ==
    [i \in 1..Len(evs) |-> CreateICalEvent(evs[i], locationText)]

InitRoundTrip ==
    /\ classes = <<InitClass1, InitClass2>>
    /\ grades = {}
    /\ nextGradeId = 0
    /\ greqs = [r \in Slots |-> GIdle]
    /\ creqs = [r \in Slots |-> CReqIdle]
    /\ events = <<>>
    /\ ereqs = [r \in ESlots |-> EReqIdle]
    /\ sreqs = [r \in Slots |-> SReqIdle]
    /\ students = InitStudents
    /\ files = NoFiles
    /\ calc \in [op : {"roundTrip"}, pc : {"new"}, evs : ExportEventLists,
                 ics : {<<>>}, res : {<<>>}]

\* calendarSyncService.generateICalendar(events, professor)
ExportICalendar(outcome) ==
    /\ calc.op = "roundTrip" /\ calc.pc = "new"
    /\ calc' = IF outcome = "throws" /\ calc.evs # <<>>
               THEN [calc EXCEPT !.pc = "failed"]
               ELSE [calc EXCEPT !.pc = "exported",
                                 !.ics = GenerateICalendar(calc.evs, outcome)]
    /\ UNCHANGED <<classes, grades, nextGradeId, greqs, creqs, events, ereqs, files, students, sreqs>>

\* calendarSyncService.parseICalendar(icalContent)
ParseExported ==
    /\ calc.op = "roundTrip" /\ calc.pc = "exported"
    /\ calc' = [calc EXCEPT !.pc = "parsed", !.res = ParseICalendar(calc.ics)]
    /\ UNCHANGED <<classes, grades, nextGradeId, greqs, creqs, events, ereqs, files, students, sreqs>>

NextRoundTrip ==
    \/ \E outcome \in LocationOutcomes : ExportICalendar(outcome)
    \/ ParseExported

SpecRoundTrip == InitRoundTrip /\ [][NextRoundTrip]_vars

\* C17: parsing the export of a list of events gives one event per exported
\* event, with the same title, start, end and location.
C17_RoundTripPreserves ==
    (calc.op = "roundTrip" /\ calc.pc = "parsed")
    => /\ Len(calc.res) = Len(calc.evs)
       /\ \A i \in 1..Len(calc.evs) :
            /\ calc.res[i].title = calc.evs[i].title
            /\ calc.res[i].startDateTime = calc.evs[i].startDateTime
            /\ calc.res[i].endDateTime = calc.evs[i].endDateTime
            /\ calc.res[i].location = calc.evs[i].location

(***************************************************************************)
(* The weekly schedule.  Instants are counted from a Sunday 00:00, DayLen  *)
(* instants to the day, in the server's local time.                        *)
(***************************************************************************)
NumWeeks == 2
MaxWeekEvents == 1
DaysPerWeek == 7

WeekInstants == 0..(NumWeeks * DaysPerWeek * DayLen - 1)

\* const days = [...]
DayNames ==
    <<"Sunday", "Monday", "Tuesday", "Wednesday", "Thursday", "Friday",
      "Saturday">>

GetDay_FromMonday(t) == ((t \div DayLen) + 6) % DaysPerWeek

\* Date.prototype.getDay(): 0 for Sunday
GetDay(t) == (t \div DayLen) % DaysPerWeek

\* weekStart.setDate(weekStart.getDate() - weekStart.getDay());
\* weekStart.setHours(0, 0, 0, 0)
WeekStartOf(t) == StartOfDay(t - GetDay(t) * DayLen)

\* weekEnd.setDate(weekEnd.getDate() + 6); weekEnd.setHours(23, 59, 59, 999)
WeekEndOf(weekStart) == EndOfDay(weekStart + 6 * DayLen)

\* the events the schedule is drawn from: of the professor and visible, of
\* the professor and hidden, of another professor
WeekEvents ==
    [professor : Professors, startDateTime : WeekInstants, isVisible : {TRUE}]
    \cup [professor : {"p1"}, startDateTime : WeekInstants, isVisible : {FALSE}]

WeekEventLists == UNION {[1..n -> WeekEvents] : n \in 0..MaxWeekEvents}

\* .sort({startDateTime: 1}) of a sequence of positions in evs
RECURSIVE SortByStart(_, _)
SortByStart(evs, ids) ==
    IF ids = {} THEN <<>>
    ELSE LET first == CHOOSE i \in ids :
                         \A j \in ids :
                            \/ evs[i].startDateTime < evs[j].startDateTime
                            \/ /\ evs[i].startDateTime = evs[j].startDateTime
                               /\ i <= j
         IN <<first>> \o SortByStart(evs, ids \ {first})

\* CalendarEvent.find({professor, startDateTime: {$gte, $lte}, isVisible})
FindWeekEvents(evs, prof, weekStart, weekEnd) ==
    SortByStart(evs,
        {i \in 1..Len(evs) :
            /\ evs[i].professor = prof
            /\ evs[i].startDateTime >= weekStart
            /\ evs[i].startDateTime <= weekEnd
            /\ evs[i].isVisible})

\* events.forEach(event => weeklySchedule[days[getDay()]].push(event))
RECURSIVE GroupByDay(_, _, _)
GroupByDay(evs, found, weeklySchedule) ==
    IF found = <<>> THEN weeklySchedule
    ELSE LET dayName == DayNames[GetDay(evs[Head(found)].startDateTime) + 1]
         IN GroupByDay(evs, Tail(found),
               [weeklySchedule EXCEPT ![dayName] = Append(@, Head(found))])

\* the data of the response of GET /api/calendar/schedule/weekly; an event
\* is named by its position in evs
WeeklySchedule(evs, prof, given) ==
    LET weekStart == WeekStartOf(given)
        weekEnd == WeekEndOf(weekStart)
        found == FindWeekEvents(evs, prof, weekStart, weekEnd)
    IN [weekStart |-> weekStart, weekEnd |-> weekEnd,
        schedule |->
            GroupByDay(evs, found,
                [d \in {DayNames[k] : k \in 1..DaysPerWeek} |-> <<>>])]

InitWeekly ==
    /\ classes = <<InitClass1, InitClass2>>
    /\ grades = {}
    /\ nextGradeId = 0
    /\ greqs = [r \in Slots |-> GIdle]
    /\ creqs = [r \in Slots |-> CReqIdle]
    /\ events = <<>>
    /\ ereqs = [r \in ESlots |-> EReqIdle]
    /\ sreqs = [r \in Slots |-> SReqIdle]
    /\ students = InitStudents
    /\ files = NoFiles
    /\ calc \in [op : {"weekly"}, pc : {"new"}, prof : {"p1"},
                 weekStart : WeekInstants, evs : WeekEventLists,
                 res : {NoCalc}]

\* GET /api/calendar/schedule/weekly
GetWeeklySchedule ==
    /\ calc.op = "weekly" /\ calc.pc = "new"
    /\ calc' = [calc EXCEPT !.pc = "done",
                  !.res = WeeklySchedule(calc.evs, calc.prof, calc.weekStart)]
    /\ UNCHANGED <<classes, grades, nextGradeId, greqs, creqs, events, ereqs, files, students, sreqs>>

NextWeekly == GetWeeklySchedule

SpecWeekly == InitWeekly /\ [][NextWeekly]_vars

\* the days in whose bucket the event at position i of evs appears, each as
\* often as it appears there
BucketsOf(schedule, i) ==
    UNION {{<<d, k>> : k \in {x \in 1..Len(schedule[d]) : schedule[d][x] = i}} :
              d \in DOMAIN schedule}

\* C20: the week is the one from the Sunday 00:00 at or before the given
\* weekStart to the Saturday 23:59:59.999 after it; a visible event of the
\* professor that starts in the week is in exactly one bucket, the one of
\* the day of its start, and any other event is in no bucket.
C20_WeeklyBuckets ==
    (calc.op = "weekly" /\ calc.pc = "done")
    => LET ws == calc.res.weekStart
           we == calc.res.weekEnd
       IN /\ ws % (DaysPerWeek * DayLen) = 0
          /\ ws <= calc.weekStart
          /\ calc.weekStart < ws + DaysPerWeek * DayLen
          /\ we = ws + DaysPerWeek * DayLen - 1
          /\ \A i \in 1..Len(calc.evs) :
               LET e == calc.evs[i]
               IN IF /\ e.professor = calc.prof /\ e.isVisible
                     /\ ws <= e.startDateTime /\ e.startDateTime <= we
                  THEN \E k \in 1..Len(calc.evs) :
                         BucketsOf(calc.res.schedule, i) =
                           {<<DayNames[(e.startDateTime - ws) \div DayLen + 1],
                              k>>}
                  ELSE BucketsOf(calc.res.schedule, i) = {}

\* a weekStart in the middle of a week was moved back and an event starting
\* on the Wednesday of that week is in the Wednesday bucket
C20_Witness_WednesdayEvent ==
    /\ calc.op = "weekly" /\ calc.pc = "done"
    /\ calc.res.weekStart < calc.weekStart
    /\ calc.res.weekStart > 0
    /\ Len(calc.res.schedule["Wednesday"]) = 1
    /\ calc.evs[1].startDateTime = calc.res.weekStart + 3 * DayLen + 1

(***************************************************************************)
(* Calendar events: all-day times, the import flag, the class link.        *)
(***************************************************************************)
\* C21: every stored event with isAllDay = true starts at 00:00:00.000 of
\* its start's day and ends at 23:59:59.999 of its end's day.
C21_AllDayNormalized ==
    \A i \in 1..Len(events) :
        events[i].isAllDay =>
            /\ events[i].startDateTime = StartOfDay(events[i].startDateTime)
            /\ events[i].endDateTime = EndOfDay(events[i].endDateTime)

\* C22: every event an iCalendar import stores has the isExternal flag set.
C22_ImportedEventsFlagged ==
    [][\A r \in ESlots :
          ( /\ ereqs[r].op = "import" /\ ereqs[r].pc = "importing"
            /\ ereqs'[r] # ereqs[r]
            /\ Len(events') = Len(events) + 1 )
          => /\ "isExternal" \in DOMAIN events'[Len(events')]
             /\ events'[Len(events')]["isExternal"] = TRUE]_vars

\* C26: every stored event that is linked to a class is linked to a class
\* of the event's own professor.
C26_EventClassOwnedByProfessor ==
    \A i \in 1..Len(events) :
        events[i].class # 0 =>
            /\ events[i].class \in 1..Len(classes)
            /\ classes[events[i].class].professor = events[i].professor

(***************************************************************************)
(* The exported calendar file and the public feed.                         *)
(***************************************************************************)
\* createICalFilePath(professorId): data/calendars/<professorId>.ics
CreateICalFilePath(professorId) == <<"data", "calendars", professorId, "ics">>

\* fs.existsSync(filePath)
ExistsSync(fs, filePath) == filePath \in DOMAIN fs

WriteFileSync_KeepFirst(fs, filePath, content) ==
    IF filePath \in DOMAIN fs THEN fs ELSE (filePath :> content) @@ fs

\* fs.writeFileSync(filePath, content): creates the file or replaces its
\* content
WriteFileSync(fs, filePath, content) == (filePath :> content) @@ fs

\* saveICalendarToFile(icalContent, professorId)
SaveICalendarToFile(fs, icalContent, professorId) ==
    WriteFileSync(fs, CreateICalFilePath(professorId), icalContent)

\* CalendarEvent.find({professor, isVisible: true}): the documents with
\* their _id (isVisible defaults to true and no modelled handler clears it)
FindVisibleEvents(prof) ==
    LET ids == {i \in 1..Len(events) : events[i].professor = prof}
        F[k \in 0..Len(events)] ==
            IF k = 0 THEN <<>>
            ELSE IF k \in ids
                 THEN Append(F[k - 1], [id |-> k,
                                        startDateTime |-> events[k].startDateTime,
                                        endDateTime |-> events[k].endDateTime])
                 ELSE F[k - 1]
    IN F[Len(events)]

\* generateICalendar(events, professor), of the fields the model stores:
\* one VEVENT per event with its id and its times as iCalendar writes them
CalendarText(evs) ==
    [i \in 1..Len(evs) |->
        [type |-> "VEVENT", uid |-> evs[i].id,
         start |-> ICalDateTime(evs[i].startDateTime),
         end |-> ICalDateTime(evs[i].endDateTime)]]

\* a request answered with a text body: the text and the professor the
\* request named are kept with the response
EDoneText(req, status, message, text) ==
    [EDone(req, status, message, "none") EXCEPT !.prof = req.prof,
                                                !.items = text]

\* GET /api/calendar/export/ical up to the end of CalendarEvent.find
ExportBegin(r, prof) ==
    /\ FreeSlot(ereqs, r)
    /\ ereqs' = [ereqs EXCEPT ![r] =
                    [EReqIdle EXCEPT !.pc = "exporting", !.op = "export",
                                     !.prof = prof,
                                     !.items = FindVisibleEvents(prof)]]
    /\ UNCHANGED <<classes, grades, nextGradeId, greqs, creqs, events, calc,
                   files, students, sreqs>>

\* GET /api/calendar/export/ical after Professor.findById: the text is
\* generated from the events read before, written to the professor's file
\* and sent
ExportFinish(r) ==
    /\ ereqs[r].pc = "exporting"
    /\ LET icalContent == CalendarText(ereqs[r].items)
       IN /\ files' = SaveICalendarToFile(files, icalContent, ereqs[r].prof)
          /\ ereqs' = [ereqs EXCEPT ![r] =
                          EDoneText(ereqs[r], 200, "none", icalContent)]
    /\ UNCHANGED <<classes, grades, nextGradeId, greqs, creqs, events, calc, students, sreqs>>

\* GET /api/calendar/ical/:professorId: no await, the response is computed
\* from the file in one step
GetPublicFeed(professorId) ==
    /\ LET filePath == CreateICalFilePath(professorId)
       IN calc' = IF ~ExistsSync(files, filePath)
                  THEN [op |-> "feed", professorId |-> professorId,
                        status |-> 404, message |-> "Calendar not found",
                        body |-> <<>>]
                  ELSE [op |-> "feed", professorId |-> professorId,
                        status |-> 200, message |-> "none",
                        body |-> files[filePath]]
    /\ UNCHANGED <<classes, grades, nextGradeId, greqs, creqs, events, ereqs,
                   files, students, sreqs>>

FeedBodies ==
    [class : {0}, startDateTime : {0, 2}, endDateTime : {1, 3},
     isAllDay : {FALSE}, attendees : {<<>>}]

NextFeed ==
    \/ \E r \in ESlots, prof \in Professors, body \in FeedBodies :
            CreateEvent(r, prof, body)
    \/ \E r \in ESlots, prof \in Professors : ExportBegin(r, prof)
    \/ \E r \in ESlots : ExportFinish(r)
    \/ \E professorId \in Professors : GetPublicFeed(professorId)

SpecFeed == Init /\ [][NextFeed]_vars

EnrollmentStatuses == {"enrolled", "dropped", "completed"}

\* classSchema.virtual('currentEnrollment')
CurrentEnrollment(classDoc) ==
    Cardinality({i \in 1..Len(classDoc.enrolledStudents) :
                    classDoc.enrolledStudents[i].status = "enrolled"})

\* POST /api/classes/:id/enroll up to the end of Class.findOne: the class
\* document the rest of the handler works on is the one read here
EnrollBegin(r, prof, id, studentId) ==
    /\ FreeSlot(creqs, r)
    /\ LET req == [CReqIdle EXCEPT !.op = "enroll", !.prof = prof,
                                   !.class = id, !.studentId = studentId]
       IN creqs' = [creqs EXCEPT ![r] =
            IF studentId = ""
            THEN CDone(req, 400, "Student ID is required")
            ELSE IF FindClass(id, prof) = 0
            THEN CDone(req, 404, "Class not found")
            ELSE IF CurrentEnrollment(classes[id]) >= classes[id].maxEnrollment
            THEN CDone(req, 400, "Class is full")
            ELSE [req EXCEPT
                    !.pc = "findStudent",
                    !.isEnrolled = IsEnrolled(classes[id], studentId),
                    !.scheduleOk = ScheduleValid(classes[id].startTime,
                                                 classes[id].endTime)]]
    /\ UNCHANGED <<classes, grades, nextGradeId, greqs, events, ereqs, calc,
                   files, students, sreqs>>

\* POST /api/classes/:id/enroll: Student.findById(studentId), then the
\* check of the enrollments read before
EnrollFindStudent(r) ==
    /\ creqs[r].op = "enroll" /\ creqs[r].pc = "findStudent"
    /\ LET req == creqs[r]
       IN creqs' = [creqs EXCEPT ![r] =
            IF CastObjectId(req.studentId) = NoOid
            THEN CDone(req, 500, "Failed to enroll student")
            ELSE IF CastObjectId(req.studentId) \notin DOMAIN students
            THEN CDone(req, 404, "Student not found")
            ELSE IF req.isEnrolled
            THEN CDone(req, 400, "Student is already enrolled in this class")
            ELSE [req EXCEPT !.pc = "save"]]
    /\ UNCHANGED <<classes, grades, nextGradeId, greqs, events, ereqs, calc,
                   files, students, sreqs>>

\* POST /api/classes/:id/enroll: classDoc.save() and the response.  The
\* pre('save') hook checks the schedule read before; the update sent is
\* {$push: {enrolledStudents: record}, $inc: {__v: 1}} on {_id}.
EnrollSave(r) ==
    /\ creqs[r].op = "enroll" /\ creqs[r].pc = "save"
    /\ LET req == creqs[r]
       IN IF ~req.scheduleOk
          THEN /\ creqs' = [creqs EXCEPT ![r] =
                     CDone(req, 500, "Failed to enroll student")]
               /\ UNCHANGED classes
          ELSE /\ classes' = [classes EXCEPT
                     ![req.class].enrolledStudents =
                          Append(@, [student |-> CastObjectId(req.studentId),
                                     status |-> "enrolled"]),
                     ![req.class].version = @ + 1]
               /\ creqs' = [creqs EXCEPT ![r] =
                     CDone(req, 200, "Student enrolled successfully")]
    /\ UNCHANGED <<grades, nextGradeId, greqs, events, ereqs, calc, files,
                   students, sreqs>>

\* classDoc.enrolledStudents.find(e => e.student.toString() === studentId):
\* the index of the first record of the student, 0 when there is none
FindEnrollment(enrolledStudents, studentStr) ==
    LET hits == {i \in 1..Len(enrolledStudents) :
                    OidToString(enrolledStudents[i].student) = studentStr}
    IN IF hits = {} THEN 0 ELSE CHOOSE i \in hits : \A j \in hits : i <= j

\* PUT /api/classes/:id/students/:studentId/status up to the end of
\* Class.findOne
SetEnrollmentStatusBegin(r, prof, id, studentId, newStatus) ==
    /\ FreeSlot(creqs, r)
    /\ LET req == [CReqIdle EXCEPT !.op = "setStatus", !.prof = prof,
                                   !.class = id, !.studentId = studentId,
                                   !.newStatus = newStatus]
           idx == FindEnrollment(classes[id].enrolledStudents, studentId)
       IN creqs' = [creqs EXCEPT ![r] =
            IF newStatus \notin EnrollmentStatuses
            THEN CDone(req, 400, "Invalid status. Must be enrolled, dropped, or completed")
            ELSE IF FindClass(id, prof) = 0
            THEN CDone(req, 404, "Class not found")
            ELSE IF idx = 0
            THEN CDone(req, 404, "Student not found in this class")
            ELSE [req EXCEPT
                    !.pc = "save", !.idx = idx,
                    !.version = classes[id].version,
                    !.modified =
                        (classes[id].enrolledStudents[idx].status # newStatus),
                    !.scheduleOk = ScheduleValid(classes[id].startTime,
                                                 classes[id].endTime)]]
    /\ UNCHANGED <<classes, grades, nextGradeId, greqs, events, ereqs, calc,
                   files, students, sreqs>>

\* PUT /api/classes/:id/students/:studentId/status: classDoc.save() and the
\* response.  The update sent is
\* {$set: {'enrolledStudents.<idx>.status': status}} on {_id, __v: version};
\* it fails with a VersionError when no document matches, and nothing is
\* sent when the status was already the one asked for.
SetEnrollmentStatusSave(r) ==
    /\ creqs[r].op = "setStatus" /\ creqs[r].pc = "save"
    /\ LET req == creqs[r]
       IN IF ~req.scheduleOk
          THEN /\ creqs' = [creqs EXCEPT ![r] =
                     CDone(req, 500, "Failed to update student status")]
               /\ UNCHANGED classes
          ELSE IF ~req.modified
          THEN /\ creqs' = [creqs EXCEPT ![r] =
                     CDone(req, 200, "Student status updated successfully")]
               /\ UNCHANGED classes
          ELSE IF classes[req.class].version # req.version
          THEN /\ creqs' = [creqs EXCEPT ![r] =
                     CDone(req, 500, "Failed to update student status")]
               /\ UNCHANGED classes
          ELSE /\ classes' = [classes EXCEPT
                     ![req.class].enrolledStudents[req.idx].status =
                          req.newStatus]
               /\ creqs' = [creqs EXCEPT ![r] =
                     CDone(req, 200, "Student status updated successfully")]
    /\ UNCHANGED <<grades, nextGradeId, greqs, events, ereqs, calc, files,
                   students, sreqs>>

EnrollIdStrings == {"", "s1", "S1", "s2", "s3", "zz"}

NextEnroll ==
    \/ \E r \in Slots, prof \in Professors, id \in 1..2,
          studentId \in EnrollIdStrings :
            EnrollBegin(r, prof, id, studentId)
    \/ \E r \in Slots : EnrollFindStudent(r)
    \/ \E r \in Slots : EnrollSave(r)
    \/ \E r \in Slots, prof \in Professors, id \in 1..2,
          studentId \in EnrollIdStrings \ {""},
          newStatus \in EnrollmentStatuses \cup {"none"} :
            SetEnrollmentStatusBegin(r, prof, id, studentId, newStatus)
    \/ \E r \in Slots : SetEnrollmentStatusSave(r)
    \/ \E r \in Slots, prof \in Professors, id \in 1..2,
          courseCode \in {"CS1"}, schedule \in Schedules :
            UpdateClass(r, prof, id, courseCode, schedule)

SpecEnroll == Init /\ [][NextEnroll]_vars

\* C24: in every class the number of enrollment records with status
\* 'enrolled' is at most the class's maxEnrollment.
C24_EnrolledWithinCapacity ==
    \A c \in 1..Len(classes) :
        CurrentEnrollment(classes[c]) <= classes[c].maxEnrollment

\* C25: in every class no student has more than one enrollment record with
\* status 'enrolled'.
C25_OneEnrolledRecordPerStudent ==
    \A c \in 1..Len(classes) :
        \A i, j \in 1..Len(classes[c].enrolledStudents) :
            ( /\ classes[c].enrolledStudents[i].student
                   = classes[c].enrolledStudents[j].student
              /\ classes[c].enrolledStudents[i].status = "enrolled"
              /\ classes[c].enrolledStudents[j].status = "enrolled" )
            => i = j

(***************************************************************************)
(* Students: GET, PUT, DELETE /api/students/:id, POST /:id/notes,          *)
(* GET /:id/grades, POST /api/students.                                    *)
(***************************************************************************)
\* a request that was answered: what is kept of it is the operation and the
\* response, and for a refusal the professor and the student it named
SDone(req, status, message) ==
    [SReqIdle EXCEPT !.pc = "done", !.op = req.op,
                     !.prof = IF status = 403 THEN req.prof ELSE "none",
                     !.id = IF status = 403 THEN req.id ELSE "none",
                     !.status = status, !.message = message]

HasAccess_AnyRecord(prof, idStr) ==
    \E c \in 1..Len(classes) :
        /\ classes[c].professor = prof
        /\ \E i \in 1..Len(classes[c].enrolledStudents) :
             OidToString(classes[c].enrolledStudents[i].student) = idStr

\* Class.find({professor}) and professorClasses.some(cls =>
\*   cls.enrolledStudents.some(e => e.student.toString() === req.params.id
\*                                  && e.status === 'enrolled'))
HasAccess(prof, idStr) ==
    \E c \in 1..Len(classes) :
        /\ classes[c].professor = prof
        /\ IsEnrolled(classes[c], idStr)

\* GET /api/students/:id up to the end of Student.findById
GetStudentBegin(r, prof, id) ==
    /\ FreeSlot(sreqs, r)
    /\ LET req == [SReqIdle EXCEPT !.op = "get", !.prof = prof, !.id = id]
       IN sreqs' = [sreqs EXCEPT ![r] =
            IF ~IsMongoId(id)
            THEN SDone(req, 400, "Validation failed")
            ELSE IF CastObjectId(id) \notin DOMAIN students
            THEN SDone(req, 404, "Student not found")
            ELSE [req EXCEPT !.pc = "check"]]
    /\ UNCHANGED <<classes, grades, nextGradeId, greqs, creqs, events, ereqs,
                   calc, files, students>>

\* GET /api/students/:id: Class.find({professor}), the access check and the
\* response
GetStudentCheck(r) ==
    /\ sreqs[r].op = "get" /\ sreqs[r].pc = "check"
    /\ sreqs' = [sreqs EXCEPT ![r] =
            IF ~HasAccess(sreqs[r].prof, sreqs[r].id)
            THEN SDone(sreqs[r], 403, "Access denied to this student")
            ELSE SDone(sreqs[r], 200, "none")]
    /\ UNCHANGED <<classes, grades, nextGradeId, greqs, creqs, events, ereqs,
                   calc, files, students>>

StudentOps == {"update", "delete", "note", "grades"}

DeniedMessage(op) ==
    CASE op = "update" -> "Access denied to update this student"
      [] op = "delete" -> "Access denied to delete this student"
      [] op = "note" -> "Access denied to add notes to this student"
      [] op = "grades" -> "Access denied to view grades for this student"

\* PUT /api/students/:id, DELETE /api/students/:id, POST /:id/notes and
\* GET /:id/grades up to the end of Class.find({professor}): the parameter
\* check, the note's content check, the access check
StudentAccessCheck(r, op, prof, id, firstName, content) ==
    /\ FreeSlot(sreqs, r)
    /\ LET req == [SReqIdle EXCEPT !.op = op, !.prof = prof, !.id = id,
                                   !.firstName = firstName]
       IN sreqs' = [sreqs EXCEPT ![r] =
            IF ~IsMongoId(id)
            THEN SDone(req, 400, "Validation failed")
            ELSE IF op = "note" /\ content = ""
            THEN SDone(req, 400, "Note content is required")
            ELSE IF ~HasAccess(prof, id)
            THEN SDone(req, 403, DeniedMessage(op))
            ELSE [req EXCEPT !.pc = "granted", !.hasAccess = TRUE]]
    /\ UNCHANGED <<classes, grades, nextGradeId, greqs, creqs, events, ereqs,
                   calc, files, students>>

\* the second await of the four handlers: Student.findByIdAndUpdate with the
\* body, with {isActive: false} or with the pushed note, or Grade.find, and
\* the response
StudentAct(r) ==
    /\ sreqs[r].pc = "granted"
    /\ LET req == sreqs[r]
           oid == CastObjectId(req.id)
       IN IF req.op = "grades"
          THEN /\ sreqs' = [sreqs EXCEPT ![r] = SDone(req, 200, "none")]
               /\ UNCHANGED students
          ELSE IF oid \notin DOMAIN students
          THEN /\ sreqs' = [sreqs EXCEPT ![r] =
                     SDone(req, 404, "Student not found")]
               /\ UNCHANGED students
          ELSE /\ students' =
                     CASE req.op = "update" ->
                            [students EXCEPT ![oid].firstName = req.firstName]
                       [] req.op = "delete" ->
                            [students EXCEPT ![oid].isActive = FALSE]
                       [] req.op = "note" ->
                            [students EXCEPT ![oid].notes = @ + 1]
               /\ sreqs' = [sreqs EXCEPT ![r] =
                     SDone(req, 200,
                           CASE req.op = "update" -> "Student updated successfully"
                             [] req.op = "delete" -> "Student deleted successfully"
                             [] req.op = "note" -> "Note added successfully")]
    /\ UNCHANGED <<classes, grades, nextGradeId, greqs, creqs, events, ereqs,
                   calc, files>>

\* the _id a new student document gets
NewStudentOid == "s3"

\* POST /api/students: Student.findOne({studentId}), Student.findOne({email})
\* and student.save() with its unique indexes; the three reads and writes
\* are awaited one after the other
CreateStudentBegin(r, prof, studentId, email) ==
    /\ FreeSlot(sreqs, r)
    /\ LET req == [SReqIdle EXCEPT !.op = "create", !.prof = prof,
                                   !.studentId = studentId, !.email = email]
       IN sreqs' = [sreqs EXCEPT ![r] =
            IF \E oid \in DOMAIN students : students[oid].studentId = studentId
            THEN SDone(req, 400, "Student with this ID already exists")
            ELSE [req EXCEPT !.pc = "findEmail"]]
    /\ UNCHANGED <<classes, grades, nextGradeId, greqs, creqs, events, ereqs,
                   calc, files, students>>

CreateStudentFindEmail(r) ==
    /\ sreqs[r].op = "create" /\ sreqs[r].pc = "findEmail"
    /\ sreqs' = [sreqs EXCEPT ![r] =
            IF \E oid \in DOMAIN students : students[oid].email = sreqs[r].email
            THEN SDone(sreqs[r], 400, "Student with this email already exists")
            ELSE [sreqs[r] EXCEPT !.pc = "save"]]
    /\ UNCHANGED <<classes, grades, nextGradeId, greqs, creqs, events, ereqs,
                   calc, files, students>>

CreateStudentSave(r) ==
    /\ sreqs[r].op = "create" /\ sreqs[r].pc = "save"
    /\ LET req == sreqs[r]
       IN IF \/ NewStudentOid \in DOMAIN students
             \/ \E oid \in DOMAIN students :
                   \/ students[oid].studentId = req.studentId
                   \/ students[oid].email = req.email
          THEN /\ sreqs' = [sreqs EXCEPT ![r] =
                     SDone(req, 500, "Failed to create student")]
               /\ UNCHANGED students
          ELSE /\ students' =
                     (NewStudentOid :> [studentId |-> req.studentId,
                                        email |-> req.email,
                                        firstName |-> "Ann",
                                        isActive |-> TRUE, notes |-> 0])
                     @@ students
               /\ sreqs' = [sreqs EXCEPT ![r] =
                     SDone(req, 201, "Student created successfully")]
    /\ UNCHANGED <<classes, grades, nextGradeId, greqs, creqs, events, ereqs,
                   calc, files>>

StudentIdStrings == {"s1", "s2", "s3", "zz"}

NextStudents ==
    \/ \E r \in Slots, prof \in Professors, id \in StudentIdStrings :
            GetStudentBegin(r, prof, id)
    \/ \E r \in Slots : GetStudentCheck(r)
    \/ \E r \in Slots, op \in StudentOps, prof \in Professors,
          id \in StudentIdStrings, firstName \in {"Bob"},
          content \in {"", "note"} :
            StudentAccessCheck(r, op, prof, id, firstName, content)
    \/ \E r \in Slots : StudentAct(r)
    \/ \E r \in Slots, prof \in Professors,
          studentId \in {<<"A", "1">>, <<"A", "3">>},
          email \in {<<"c", "@", "x", ".", "e">>} :
            CreateStudentBegin(r, prof, studentId, email)
    \/ \E r \in Slots : CreateStudentFindEmail(r)
    \/ \E r \in Slots : CreateStudentSave(r)
    \/ \E r \in Slots, prof \in Professors, id \in 1..2,
          studentId \in {"s1", "s2"},
          newStatus \in {"enrolled", "dropped"} :
            SetEnrollmentStatusBegin(r, prof, id, studentId, newStatus)
    \/ \E r \in Slots : SetEnrollmentStatusSave(r)

SpecStudents == Init /\ [][NextStudents]_vars

\* the student named by idStr has an enrollment record with status
\* 'enrolled' in a class of professor prof
EnrolledWith(prof, idStr) ==
    \E c \in 1..Len(classes) :
        /\ classes[c].professor = prof
        /\ \E i \in 1..Len(classes[c].enrolledStudents) :
             /\ classes[c].enrolledStudents[i].student = CastObjectId(idStr)
             /\ classes[c].enrolledStudents[i].status = "enrolled"

C28_StoredLetterAgreesWithStoredPercentage ==
    ( /\ calc.op = "saveGrade" /\ calc.pc = "saved"
      /\ calc.given.letterGrade = NoLetter
      /\ calc.score.percentage # Absent )
    => /\ calc.score.letterGrade \in LetterGrades
       /\ calc.score.letterGrade = FirstBand(calc.score.percentage)

(***************************************************************************)
(* POST /students/import: students from the rows of an uploaded file.      *)
(***************************************************************************)
MaxRows == 2        \* data rows of one uploaded file

RequiredFields == {"studentId", "firstName", "lastName", "email"}

\* the request as the auth middleware hands it on: it sets req.professor and
\* req.professorId, and nothing sets req.user
AuthRequest(prof) == [professor |-> prof, professorId |-> prof]

\* /^[^\s@]+@[^\s@]+\.[^\s@]+$/.test(email)
EmailRegexTest(email) ==
    /\ \A i \in 1..Len(email) : email[i] # " "
    /\ Cardinality({i \in 1..Len(email) : email[i] = "@"}) = 1
    /\ \E k \in 2..Len(email) :
          /\ email[k] = "@"
          /\ \E j \in (k + 2)..(Len(email) - 1) : email[j] = "."

\* validateStudentData(studentData, i): TRUE when it returns no error (the
\* cells are already trimmed strings; no gpa column is modelled)
ValidateStudentData(row) ==
    /\ row.studentId # <<>>
    /\ row.firstName # ""
    /\ row.lastName # ""
    /\ row.email # <<>>
    /\ EmailRegexTest(row.email)

\* row.every(cell => !cell || cell.toString().trim() === '')
RowIsEmpty(row) ==
    /\ row.studentId = <<>> /\ row.firstName = ""
    /\ row.lastName = "" /\ row.email = <<>>

\* the loop over the rows, from row i on, with the results and the sets of
\* taken ids and emails so far; req is the request the handler was given
RECURSIVE ProcessRows(_, _, _, _)
ProcessRows(req, rows, i, acc) ==
    IF i > Len(rows) THEN acc
    ELSE LET row == rows[i]
             idLower == ToLowerCaseChars(row.studentId)
             emailLower == ToLowerCaseChars(row.email)
         IN IF RowIsEmpty(row)
            THEN ProcessRows(req, rows, i + 1, acc)
            ELSE IF ~ValidateStudentData(row)
            THEN ProcessRows(req, rows, i + 1,
                     [acc EXCEPT !.errorCount = @ + 1])
            ELSE IF idLower \in acc.ids \/ emailLower \in acc.emails
            THEN ProcessRows(req, rows, i + 1,
                     [acc EXCEPT !.duplicateCount = @ + 1])
            ELSE IF "user" \notin DOMAIN req
            \* req.user.id throws a TypeError: the row's catch counts it
            THEN ProcessRows(req, rows, i + 1,
                     [acc EXCEPT !.ids = @ \cup {idLower},
                                 !.emails = @ \cup {emailLower},
                                 !.errorCount = @ + 1])
            ELSE ProcessRows(req, rows, i + 1,
                     [acc EXCEPT !.ids = @ \cup {idLower},
                                 !.emails = @ \cup {emailLower},
                                 !.toCreate = Append(@, row)])

\* the _ids insertMany gives the new documents
ImportOid(k) == <<"imported", k>>

\* POST /students/import: the column check, Student.find({}), the loop over
\* the rows, Student.insertMany(studentsToCreate) and the response
ImportStudentsHandler(req, columns, rows, existing) ==
    IF RequiredFields \ columns # {}
    THEN [status |-> 400, results |-> NoCalc, created |-> <<>>]
    ELSE LET start == [ids |-> {ToLowerCaseChars(existing[oid].studentId) :
                                   oid \in DOMAIN existing},
                       emails |-> {ToLowerCaseChars(existing[oid].email) :
                                      oid \in DOMAIN existing},
                       errorCount |-> 0, duplicateCount |-> 0,
                       toCreate |-> <<>>]
             acc == ProcessRows(req, rows, 1, start)
         IN [status |-> 200,
             results |-> [totalRows |-> Len(rows),
                          successCount |-> Len(acc.toCreate),
                          errorCount |-> acc.errorCount,
                          duplicateCount |-> acc.duplicateCount],
             created |-> acc.toCreate]

ImportCells ==
    [studentId : {<<>>, <<"B", "1">>, <<"b", "1">>, <<"B", "2">>},
     firstName : {"", "Bo"}, lastName : {"Li"},
     email : {<<>>, <<"c", "@", "x", ".", "e">>, <<"d", "@", "x", ".", "e">>,
              <<"d", "@", "x">>}]

ImportRows ==
    {[studentId |-> <<>>, firstName |-> "", lastName |-> "", email |-> <<>>]}
    \cup ImportCells

ImportFiles == UNION {[1..n -> ImportRows] : n \in 0..MaxRows}

InitStudentImport ==
    /\ classes = <<InitClass1, InitClass2>>
    /\ grades = {}
    /\ nextGradeId = 0
    /\ greqs = [r \in Slots |-> GIdle]
    /\ creqs = [r \in Slots |-> CReqIdle]
    /\ events = <<>>
    /\ ereqs = [r \in ESlots |-> EReqIdle]
    /\ sreqs = [r \in Slots |-> SReqIdle]
    /\ students = InitStudents
    /\ files = NoFiles
    /\ calc \in [op : {"importStudents"}, pc : {"new"}, prof : Professors,
                 columns : {RequiredFields, RequiredFields \ {"email"}},
                 rows : ImportFiles, res : {NoCalc}]

\* the import request, answered; the created documents join the collection
ImportStudents ==
    /\ calc.op = "importStudents" /\ calc.pc = "new"
    /\ LET res == ImportStudentsHandler(AuthRequest(calc.prof), calc.columns,
                                        calc.rows, students)
       IN /\ calc' = [calc EXCEPT !.pc = "done", !.res = res]
          /\ students' =
                [oid \in DOMAIN students
                       \cup {ImportOid(k) : k \in 1..Len(res.created)} |->
                    IF oid \in DOMAIN students THEN students[oid]
                    ELSE [studentId |-> res.created[oid[2]].studentId,
                          email |-> res.created[oid[2]].email,
                          firstName |-> res.created[oid[2]].firstName,
                          isActive |-> TRUE, notes |-> 0]]
    /\ UNCHANGED <<classes, grades, nextGradeId, greqs, creqs, events, ereqs,
                   files, sreqs>>

NextStudentImport == ImportStudents

SpecStudentImport == InitStudentImport /\ [][NextStudentImport]_vars

\* the non-empty rows of a file
NonEmptyRows(rows) == {i \in 1..Len(rows) : ~RowIsEmpty(rows[i])}

\* all non-empty rows are valid and no row repeats the student id or the
\* email of another row or of a stored student (compared in lower case)
AllRowsValidAndNew(rows) ==
    /\ \A i \in NonEmptyRows(rows) : ValidateStudentData(rows[i])
    /\ \A i, j \in NonEmptyRows(rows) :
          i # j => /\ ToLowerCaseChars(rows[i].studentId)
                        # ToLowerCaseChars(rows[j].studentId)
                   /\ ToLowerCaseChars(rows[i].email)
                        # ToLowerCaseChars(rows[j].email)
    /\ \A i \in NonEmptyRows(rows) : \A oid \in DOMAIN InitStudents :
          /\ ToLowerCaseChars(rows[i].studentId)
               # ToLowerCaseChars(InitStudents[oid].studentId)
          /\ ToLowerCaseChars(rows[i].email)
               # ToLowerCaseChars(InitStudents[oid].email)

\* C29: an import file with the four required columns whose non-empty rows
\* are all valid and new is answered with successCount = the number of
\* non-empty rows, errorCount = 0 and duplicateCount = 0, and a student is
\* stored for every non-empty row.
C29_ValidImportCreatesEveryRow ==
    ( /\ calc.op = "importStudents" /\ calc.pc = "done"
      /\ calc.columns = RequiredFields
      /\ AllRowsValidAndNew(calc.rows) )
    => /\ calc.res.status = 200
       /\ calc.res.results.successCount = Cardinality(NonEmptyRows(calc.rows))
       /\ calc.res.results.errorCount = 0
       /\ calc.res.results.duplicateCount = 0
       /\ \A i \in NonEmptyRows(calc.rows) :
            \E oid \in DOMAIN students :
               students[oid].studentId = calc.rows[i].studentId

(***************************************************************************)
(* Export, then import: the event type.                                    *)
(***************************************************************************)
\* C30: every event of an exported calendar comes back from the parse with
\* its own event type: mapEventType of the category written for type t is t,
\* for each of the 16 event types.
C30_ExportImportKeepsEventType ==
    (calc.op = "roundTrip" /\ calc.pc = "parsed")
    => \A i \in 1..Len(calc.evs) :
          /\ i <= Len(calc.res)
          /\ calc.res[i].eventType \in EventTypes
          /\ calc.res[i].eventType = calc.evs[i].eventType

====
